---- MODULE Spec2Model ----
(***************************************************************************)
(* Liquidity Vector: the resilient multi-source orchestration engine.      *)
(*                                                                         *)
(*   SpecBreaker  one AsyncCircuitBreaker (api/resilience.py) driven by    *)
(*                concurrent calls, a health probe and a wall clock.       *)
(*   SpecAnalyze  AggregatorService.analyze_route (api/services.py): the   *)
(*                four-way fan-out over the gas and bridge-quote fetchers, *)
(*                the shared breakers and TTL caches, the retry/fallback   *)
(*                policy and the assembly of the RouteCalculation.         *)
(***************************************************************************)
EXTENDS Integers, Sequences, FiniteSets, TLC

VARIABLES
    now,        \* time.time(), in seconds
    brk,        \* SpecBreaker: the AsyncCircuitBreaker instance
    calls,      \* SpecBreaker: per caller, "idle" or "inflight" (awaiting func())
    streak,     \* SpecBreaker: recorded failures since the last recorded success
    ev,         \* SpecBreaker: the step just taken
    cb,         \* SpecAnalyze: the module-level breakers, by name
    cache,      \* SpecAnalyze: the module-level TTL caches, by name
    req,        \* SpecAnalyze: the AnalyzeRequest
    task,       \* SpecAnalyze: the four fetch coroutines of analyze_route
    orch,       \* SpecAnalyze: analyze_route's own position and locals
    net         \* SpecAnalyze: what the request has touched so far

vars == <<now, brk, calls, streak, ev, cb, cache, req, task, orch, net>>
breakerVars == <<brk, calls, streak, ev>>
analyzeVars == <<cb, cache, req, task, orch, net>>

(***************************************************************************)
(* Bounds of the model.                                                    *)
(***************************************************************************)
MaxFailMax == 3         \* fail_max ranges over 1..MaxFailMax
MaxResetTimeout == 2    \* reset_timeout ranges over 1..MaxResetTimeout
MaxCallers == 2         \* concurrent callers of one breaker
MaxTime == 5            \* SpecBreaker: the clock stops here
MaxFailCount == 4       \* SpecBreaker: no call starts once fail_counter is here

StartTime == 1          \* the clock's first reading (time.time() is positive)
None == -1              \* Python's None in an Optional[float] field

(***************************************************************************)
(* AsyncCircuitBreaker                                                     *)
(***************************************************************************)
\* __init__: a closed breaker with no failures.
NewBreaker(fail_max, reset_timeout, excluded) ==
    [fail_max |-> fail_max, reset_timeout |-> reset_timeout,
     excluded_exceptions |-> excluded,
     state |-> "closed", fail_counter |-> 0, last_failure_time |-> None]

\* Python truthiness of an Optional[float].
Truthy(t) == t # None /\ t # 0

\* The current_state property: reading it moves open to half_open once
\* reset_timeout has elapsed since the last failure.
CurrentStateStrictlyLater(b, t) ==
    IF b.state = "open" /\ Truthy(b.last_failure_time)
          /\ t - b.last_failure_time > b.reset_timeout
    THEN [b EXCEPT !.state = "half_open"]
    ELSE b

CurrentState(b, t) ==
    IF b.state = "open" /\ Truthy(b.last_failure_time)
          /\ t - b.last_failure_time >= b.reset_timeout
    THEN [b EXCEPT !.state = "half_open"]
    ELSE b

OnSuccessKeepsCounter(b) ==
    [b EXCEPT !.state = "closed", !.last_failure_time = None]

\* _on_success
OnSuccess(b) ==
    [b EXCEPT !.state = "closed", !.fail_counter = 0, !.last_failure_time = None]

OnFailureOffByOne(b, t) ==
    [b EXCEPT !.fail_counter = @ + 1,
              !.last_failure_time = t,
              !.state = IF b.fail_counter + 1 > b.fail_max THEN "open" ELSE @]

\* _on_failure
OnFailure(b, t) ==
    [b EXCEPT !.fail_counter = @ + 1,
              !.last_failure_time = t,
              !.state = IF b.fail_counter + 1 >= b.fail_max THEN "open" ELSE @]

\* call(), up to the await: the state is read (and possibly moved to
\* half_open); an open breaker rejects with CircuitBreakerError.
CallAdmits(b, t) == CurrentState(b, t).state # "open"

IsExcluded(b, kind) == kind \in b.excluded_exceptions

SettleExcludedEndsTrial(b, outcome, t) ==
    IF outcome = "ok" THEN OnSuccess(b)
    ELSE IF IsExcluded(b, outcome)
    THEN (IF b.state = "half_open" THEN [b EXCEPT !.state = "closed"] ELSE b)
    ELSE OnFailure(b, t)

SettleCountsExcluded(b, outcome, t) ==
    IF outcome = "ok" THEN OnSuccess(b) ELSE OnFailure(b, t)

\* call(), after the await: outcome is "ok" or the kind of exception raised.
Settle(b, outcome, t) ==
    IF outcome = "ok" THEN OnSuccess(b)
    ELSE IF IsExcluded(b, outcome) THEN b
    ELSE OnFailure(b, t)

(***************************************************************************)
(* SpecBreaker: one breaker, MaxCallers concurrent callers.                *)
(***************************************************************************)
Callers == 1..MaxCallers
ExcludedChoices == {{"ValueError"}, {"ValueError", "RateLimitError"}}
Outcomes == {"ok", "ValueError", "RateLimitError", "HTTPStatusError"}

Min(a, b) == IF a < b THEN a ELSE b
Max(a, b) == IF a > b THEN a ELSE b

AnalyzeIdle ==
    /\ cb = <<>> /\ cache = <<>> /\ req = <<>> /\ task = <<>>
    /\ orch = <<>> /\ net = <<>>

BreakerInit ==
    /\ now = StartTime
    /\ \E n \in 1..MaxFailMax, r \in 1..MaxResetTimeout, x \in ExcludedChoices :
          brk = NewBreaker(n, r, x)
    /\ calls = [c \in Callers |-> "idle"]
    /\ streak = 0
    /\ ev = [kind |-> "init", caller |-> 0, outcome |-> "none", before |-> "closed"]
    /\ AnalyzeIdle

\* A caller enters call() while the breaker lets it through: func() is awaited.
CallBegin(c) ==
    /\ calls[c] = "idle"
    /\ brk.fail_counter < MaxFailCount
    /\ CallAdmits(brk, now)
    /\ brk' = CurrentState(brk, now)
    /\ calls' = [calls EXCEPT ![c] = "inflight"]
    /\ ev' = [kind |-> "admitted", caller |-> c, outcome |-> "none", before |-> brk.state]
    /\ UNCHANGED <<now, streak, analyzeVars>>

\* A caller enters call() while the breaker is open: CircuitBreakerError,
\* func() is never invoked.
CallReject(c) ==
    /\ calls[c] = "idle"
    /\ ~CallAdmits(brk, now)
    /\ brk' = CurrentState(brk, now)
    /\ ev' = [kind |-> "rejected", caller |-> c, outcome |-> "CircuitBreakerError",
              before |-> brk.state]
    /\ UNCHANGED <<now, calls, streak, analyzeVars>>

PropagateWrapped(b, o) ==
    IF o = "ok" \/ IsExcluded(b, o) THEN o ELSE "CircuitBreakerError"

\* What call() hands to its caller when func() ended with o: `return result`
\* after _on_success, or a bare `raise` of the exception caught.
Propagate(b, o) == o

\* func() returns or raises: op is its outcome, outcome what call() hands on.
CallSettle(c) ==
    /\ calls[c] = "inflight"
    /\ \E o \in Outcomes :
         /\ brk' = Settle(brk, o, now)
         /\ streak' = IF o = "ok" THEN 0
                      ELSE IF IsExcluded(brk, o) THEN streak
                      ELSE Min(streak + 1, MaxFailCount + MaxCallers)
         /\ ev' = [kind |-> "settled", caller |-> c, outcome |-> Propagate(brk, o),
                   before |-> brk.state, op |-> o]
    /\ calls' = [calls EXCEPT ![c] = "idle"]
    /\ UNCHANGED <<now, analyzeVars>>

ProbeForgetsFailures ==
    /\ brk' = [CurrentState(brk, now) EXCEPT !.fail_counter = 0]
    /\ ev' = [kind |-> "probe", caller |-> 0, outcome |-> "none", before |-> brk.state,
              report |-> [state |-> CurrentState(brk, now).state, fail_count |-> 0]]
    /\ UNCHANGED <<now, calls, streak, analyzeVars>>

\* get_circuit_states(): the health probe reads current_state, then
\* fail_counter, and reports both.
Probe ==
    /\ brk' = CurrentState(brk, now)
    /\ ev' = [kind |-> "probe", caller |-> 0, outcome |-> "none", before |-> brk.state,
              report |-> [state |-> CurrentState(brk, now).state,
                          fail_count |-> brk.fail_counter]]
    /\ UNCHANGED <<now, calls, streak, analyzeVars>>

BreakerTick ==
    /\ now < MaxTime
    /\ now' = now + 1
    /\ ev' = [kind |-> "tick", caller |-> 0, outcome |-> "none", before |-> brk.state]
    /\ UNCHANGED <<brk, calls, streak, analyzeVars>>

BreakerNext ==
    \/ \E c \in Callers : CallBegin(c)
    \/ \E c \in Callers : CallReject(c)
    \/ \E c \in Callers : CallSettle(c)
    \/ Probe
    \/ BreakerTick

SpecBreaker == BreakerInit /\ [][BreakerNext]_vars

(***************************************************************************)
(* Strings.  A Python str is its sequence of character codes; the literals *)
(* the program and the modelled requests use are tabulated here.           *)
(***************************************************************************)
Codes(s) ==
    CASE s = "Ethereum" -> <<69, 116, 104, 101, 114, 101, 117, 109>>
      [] s = "Arbitrum" -> <<65, 114, 98, 105, 116, 114, 117, 109>>
      [] s = "Base" -> <<66, 97, 115, 101>>
      [] s = "Optimism" -> <<79, 112, 116, 105, 109, 105, 115, 109>>
      [] s = "Polygon" -> <<80, 111, 108, 121, 103, 111, 110>>
      [] s = "Avalanche" -> <<65, 118, 97, 108, 97, 110, 99, 104, 101>>
      [] s = "BNB Chain" -> <<66, 78, 66, 32, 67, 104, 97, 105, 110>>
      [] s = "ethereum" -> <<101, 116, 104, 101, 114, 101, 117, 109>>
      [] s = "arbitrum" -> <<97, 114, 98, 105, 116, 114, 117, 109>>
      [] s = "base" -> <<98, 97, 115, 101>>
      [] s = "optimism" -> <<111, 112, 116, 105, 109, 105, 115, 109>>
      [] s = "polygon" -> <<112, 111, 108, 121, 103, 111, 110>>
      [] s = "avalanche" -> <<97, 118, 97, 108, 97, 110, 99, 104, 101>>
      [] s = "bnb chain" -> <<98, 110, 98, 32, 99, 104, 97, 105, 110>>
      [] s = "bsc" -> <<98, 115, 99>>
      [] s = "BSC" -> <<66, 83, 67>>
      [] s = "ETHEREUM" -> <<69, 84, 72, 69, 82, 69, 85, 77>>
      [] s = "Bsc" -> <<66, 115, 99>>
      [] s = "Mars" -> <<77, 97, 114, 115>>
      [] s = "Stargate" -> <<83, 116, 97, 114, 103, 97, 116, 101>>
      [] s = "Across" -> <<65, 99, 114, 111, 115, 115>>
      [] s = "Hop" -> <<72, 111, 112>>
      [] s = "Synapse" -> <<83, 121, 110, 97, 112, 115, 101>>
      [] s = "Native Bridge" -> <<78, 97, 116, 105, 118, 101, 32, 66, 114, 105, 100, 103, 101>>
      [] s = "stargate" -> <<115, 116, 97, 114, 103, 97, 116, 101>>
      [] s = "cBridge" -> <<99, 66, 114, 105, 100, 103, 101>>
      [] s = "Multichain" -> <<77, 117, 108, 116, 105, 99, 104, 97, 105, 110>>
      [] s = "Unknown" -> <<85, 110, 107, 110, 111, 119, 110>>
      [] s = "Local Transfer" -> <<76, 111, 99, 97, 108, 32, 84, 114, 97, 110, 115, 102, 101, 114>>
      [] s = "Estimated Bridge" -> <<69, 115, 116, 105, 109, 97, 116, 101, 100, 32, 66, 114, 105, 100, 103, 101>>
      [] s = "Native Transfer" -> <<78, 97, 116, 105, 118, 101, 32, 84, 114, 97, 110, 115, 102, 101, 114>>
      [] s = "-" -> <<45>>

\* str.lower() and str.upper() on ASCII.
Lower(cs) == [i \in DOMAIN cs |-> IF cs[i] \in 65..90 THEN cs[i] + 32 ELSE cs[i]]
Upper(cs) == [i \in DOMAIN cs |-> IF cs[i] \in 97..122 THEN cs[i] - 32 ELSE cs[i]]

\* a in b, for strings.
Contains(b, a) ==
    \E i \in 0..(Len(b) - Len(a)) : SubSeq(b, i + 1, i + Len(a)) = a

RECURSIVE SumCodes(_)
\* sum(ord(c) for c in s)
SumCodes(cs) == IF cs = <<>> THEN 0 ELSE Head(cs) + SumCodes(Tail(cs))

(***************************************************************************)
(* Chain and the static tables of api/services.py                          *)
(***************************************************************************)
ChainValues ==
    {"Ethereum", "Arbitrum", "Base", "Optimism", "Polygon", "Avalanche", "BNB Chain"}

\* The fallback map of analyze_route, lower-cased name -> Chain.
ChainMapKeys ==
    {"ethereum", "arbitrum", "base", "optimism", "polygon", "avalanche",
     "bnb chain", "bsc"}

ChainMap(k) ==
    CASE k = "ethereum" -> "Ethereum"
      [] k = "arbitrum" -> "Arbitrum"
      [] k = "base" -> "Base"
      [] k = "optimism" -> "Optimism"
      [] k = "polygon" -> "Polygon"
      [] k = "avalanche" -> "Avalanche"
      [] k = "bnb chain" -> "BNB Chain"
      [] k = "bsc" -> "BNB Chain"

NoChain == "<invalid>"

NormalizeTargetExactCase(target) ==
    IF target \in {"BSC", "bsc"} THEN "BNB Chain"
    ELSE IF target \in ChainValues THEN target
    ELSE IF target \in ChainMapKeys THEN ChainMap(target)
    ELSE NoChain

\* analyze_route, lines 824-845: the Chain the target string names, or
\* NoChain when the code raises ValueError.
NormalizeTarget(target) ==
    LET aliased == IF Upper(Codes(target)) = Codes("BSC")
                      \/ Lower(Codes(target)) = Codes("bsc")
                   THEN "BNB Chain" ELSE target
        hits == {k \in ChainMapKeys : Codes(k) = Lower(Codes(aliased))}
    IN IF aliased \in ChainValues THEN aliased
       ELSE IF hits # {} THEN ChainMap(CHOOSE k \in hits : TRUE)
       ELSE NoChain

NativeTokenId(chain) ==
    CASE chain \in {"Ethereum", "Arbitrum", "Base", "Optimism"} -> "ethereum"
      [] chain = "Polygon" -> "matic-network"
      [] chain = "Avalanche" -> "avalanche-2"
      [] chain = "BNB Chain" -> "binancecoin"

\* BASE_GAS_LIMITS, in thousands of gas.
BaseGasLimit(chain) ==
    CASE chain = "Ethereum" -> 220
      [] chain = "Arbitrum" -> 600
      [] chain = "Base" -> 350
      [] chain = "Optimism" -> 400
      [] chain = "Polygon" -> 300
      [] chain = "Avalanche" -> 250
      [] chain = "BNB Chain" -> 200

\* fallback_prices of _get_native_token_price, in USD cents.
FallbackPrice(token) ==
    CASE token = "ethereum" -> 250000
      [] token = "matic-network" -> 80
      [] token = "avalanche-2" -> 3500
      [] token = "binancecoin" -> 30000
      [] OTHER -> 10000

\* BRIDGE_OPTIONS, in order; age in tenths of a year, tvl in millions.
BridgeOptions ==
    << [name |-> "Stargate", type |-> "LayerZero", age10 |-> 25, tvl |-> 450,
        has_exploits |-> FALSE, base_time |-> 2],
       [name |-> "Across", type |-> "Intent", age10 |-> 15, tvl |-> 200,
        has_exploits |-> FALSE, base_time |-> 1],
       [name |-> "Hop", type |-> "Liquidity", age10 |-> 35, tvl |-> 65,
        has_exploits |-> FALSE, base_time |-> 10],
       [name |-> "Synapse", type |-> "Liquidity", age10 |-> 28, tvl |-> 110,
        has_exploits |-> TRUE, base_time |-> 4],
       [name |-> "Native Bridge", type |-> "Canonical", age10 |-> 40, tvl |-> 5000,
        has_exploits |-> FALSE, base_time |-> 20] >>

NativeMeta ==
    [name |-> "Native", type |-> "Native", age10 |-> 100, tvl |-> 0,
     has_exploits |-> FALSE, base_time |-> 0]

(***************************************************************************)
(* AggregatorService.get_bridge_risk                                       *)
(***************************************************************************)
\* Python's round() of x10/10 for x10 >= 0: ties go to the even integer.
RoundHalfEven(x10) ==
    LET q == x10 \div 10
        r == x10 % 10
    IN IF r < 5 THEN q
       ELSE IF r > 5 THEN q + 1
       ELSE IF q % 2 = 0 THEN q ELSE q + 1

IsL1Option(b) == b.tvl > 300 \/ b.type = "Canonical"
IsL2Option(b) == b.type # "Canonical"

\* [b for b in BRIDGE_OPTIONS if ...], order preserved.
L1Options == SelectSeq(BridgeOptions, IsL1Option)
L2Options == SelectSeq(BridgeOptions, IsL2Option)

MatchedProfileExactName(bridge_name) ==
    LET hits == {i \in DOMAIN BridgeOptions : BridgeOptions[i].name = bridge_name}
    IN IF hits = {} THEN 0 ELSE CHOOSE i \in hits : TRUE

\* The first profile whose lower-cased name contains, or is contained in,
\* the lower-cased bridge name; 0 when there is none or no name is given.
MatchedProfile(bridge_name) ==
    LET n == Lower(Codes(bridge_name))
        hits == {i \in DOMAIN BridgeOptions :
                    LET bn == Lower(Codes(BridgeOptions[i].name))
                    IN Contains(n, bn) \/ Contains(bn, n)}
    IN IF bridge_name = "" \/ hits = {} THEN 0
       ELSE CHOOSE i \in hits : \A j \in hits : i <= j

RouteHash(source, target) ==
    SumCodes(Codes(source) \o Codes("-") \o Codes(target))

SelectBridgeByClock(source, target, bridge_name) ==
    LET m == MatchedProfile(bridge_name)
        is_l1_involved == source = "Ethereum" \/ target = "Ethereum"
        options == IF is_l1_involved THEN L1Options ELSE L2Options
    IN IF m # 0 THEN BridgeOptions[m]
       ELSE options[((RouteHash(source, target) + now) % Len(options)) + 1]

SelectBridge(source, target, bridge_name) ==
    LET m == MatchedProfile(bridge_name)
        is_l1_involved == source = "Ethereum" \/ target = "Ethereum"
        options == IF is_l1_involved THEN L1Options ELSE L2Options
    IN IF m # 0 THEN BridgeOptions[m]
       ELSE options[(RouteHash(source, target) % Len(options)) + 1]

TypeScore(type) ==
    CASE type = "Canonical" -> 95
      [] type = "Intent" -> 88
      [] type = "LayerZero" -> 85
      [] type = "Liquidity" -> 78
      [] OTHER -> 75

\* Lines 744-779: the score of the selected bridge, clamped to 1..99.
BridgeScore(b, source, target) ==
    LET h == RouteHash(source, target)
        s10 == TypeScore(b.type) * 10
               + Min(b.age10 * 2, 100)
               + (IF b.tvl > 1000 THEN 40 ELSE IF b.tvl < 100 THEN -80 ELSE 0)
               + (IF b.has_exploits THEN -200 ELSE 0)
               + (IF target = "Base" \/ source = "Base" THEN -40 ELSE 0)
               + ((h % 5) - 2) * 10
    IN Max(1, Min(99, RoundHalfEven(s10)))

\* Lines 781-786: the time estimate, in minutes.
BridgeTime(b, source, target) ==
    LET h == RouteHash(source, target)
        is_l1_involved == source = "Ethereum" \/ target = "Ethereum"
    IN IF b.type = "Canonical" /\ is_l1_involved THEN 15 + (h % 10)
       ELSE Max(1, b.base_time + (h % 3) - 1)

\* source.value == target: the raw target string against the enum's value.
SameChainByValue(source, target) == Codes(source) = Codes(target)

\* get_bridge_risk(source, target, bridge_name); target is the request's
\* target_chain string as analyze_route passes it.
\* Lines 744-794: the answer for the selected bridge b.
RiskOfBridge(b, source, target) ==
    [risk_score |-> BridgeScore(b, source, target),
     bridge_name |-> b.name, bridge_type |-> b.type,
     estimated_time |-> [form |-> "min", minutes |-> BridgeTime(b, source, target)],
     has_exploits |-> b.has_exploits, bridge_metadata |-> b]

GetBridgeRisk(source, target, bridge_name) ==
    IF SameChainByValue(source, target)
    THEN [risk_score |-> 100, bridge_name |-> "Native Transfer", bridge_type |-> "",
          estimated_time |-> [form |-> "Instant", minutes |-> 0],
          has_exploits |-> FALSE, bridge_metadata |-> NativeMeta]
    ELSE CHOOSE risk \in {RiskOfBridge(b, source, target) :
                            b \in {SelectBridge(source, target, bridge_name)}} : TRUE

\* _score_to_risk_level
ScoreToRiskLevel(score) ==
    IF score >= 90 THEN 1
    ELSE IF score >= 80 THEN 2
    ELSE IF score >= 70 THEN 3
    ELSE IF score >= 60 THEN 4
    ELSE 5

(***************************************************************************)
(* The module-level breakers and TTL caches of api/resilience.py           *)
(***************************************************************************)
RpcFailMax == 10
RpcResetTimeout == 30
LifiFailMax == 5
LifiResetTimeout == 45
CoingeckoFailMax == 3
CoingeckoResetTimeout == 60
FeeHistoryTtl == 15
NativePriceTtl == 60
BridgeQuoteTtl == 10

RpcBreaker == NewBreaker(RpcFailMax, RpcResetTimeout, {"ValueError"})
LifiBreaker == NewBreaker(LifiFailMax, LifiResetTimeout, {"ValueError"})
CoingeckoBreaker ==
    NewBreaker(CoingeckoFailMax, CoingeckoResetTimeout, {"ValueError", "RateLimitError"})

\* A breaker that earlier traffic has just tripped: fail_max failures in a
\* row, the last of them at time t.
Tripped(b, t) ==
    [b EXCEPT !.state = "open", !.fail_counter = b.fail_max, !.last_failure_time = t]

FeeHistoryMaxSize == 20
NativePriceMaxSize == 10
BridgeQuoteMaxSize == 50

\* A TTLCache(maxsize, ttl) is the sequence of its entries [key, value,
\* expires], least recently used first; an entry is visible while the clock
\* is before its expiry.
EmptyCache == <<>>
CacheHasAtExpiry(c, k, t) == \E i \in DOMAIN c : c[i].key = k /\ t <= c[i].expires
CacheHas(c, k, t) == \E i \in DOMAIN c : c[i].key = k /\ t < c[i].expires
CacheGet(c, k) == c[CHOOSE i \in DOMAIN c : c[i].key = k].value

\* cache[k] read: the entry becomes the most recently used one (`k in cache`
\* alone does not reorder).
CacheUse(c, k) ==
    SelectSeq(c, LAMBDA e : e.key # k) \o SelectSeq(c, LAMBDA e : e.key = k)

\* cache[k] = v at time t: expired entries are dropped, then, if k is new
\* and the cache is full, the least recently used entry; the new entry goes
\* last.
CachePut(c, k, v, t, ttl, maxsize) ==
    LET live == SelectSeq(c, LAMBDA e : t < e.expires)
        others == SelectSeq(live, LAMBDA e : e.key # k)
        kept == IF Len(others) < maxsize THEN others ELSE Tail(others)
    IN Append(kept, [key |-> k, value |-> v, expires |-> t + ttl])

(***************************************************************************)
(* Upstream payloads.  Fees are in tenths of a gwei, gas in thousands,     *)
(* prices in USD cents, money in USD cents.                                *)
(***************************************************************************)
BadHex == -2            \* a baseFeePerGas entry int(bf, 16) cannot parse
DefaultBaseFee == 250   \* 25.0 gwei
DefaultPriorityFee == 15 \* 1.5 gwei

EmptyFeeHistory == [baseFeePerGas |-> <<>>, reward |-> <<>>]
LiveFeeHistory ==
    [baseFeePerGas |-> <<200, 300, 260>>,
     reward |-> << <<5, 10, 20>>, <<5, 14, 20>>, <<5, 12, 20>> >>]
MalformedFeeHistory == [baseFeePerGas |-> <<200, BadHex>>, reward |-> <<>>]

LivePrice(token) == IF token = "ethereum" THEN 300000 ELSE 60000
ApprovalGas == 60       \* eth_estimateGas of the approve call, thousands

Parses(fh) == \A i \in DOMAIN fh.baseFeePerGas : fh.baseFeePerGas[i] # BadHex

RECURSIVE Ema(_, _)
Ema(acc, rest) ==
    IF rest = <<>> THEN acc ELSE Ema((Head(rest) + acc) \div 2, Tail(rest))

\* _calculate_base_fee_prediction, for a fee history that parses.
BaseFeePrediction(fh) ==
    IF fh.baseFeePerGas = <<>> THEN DefaultBaseFee
    ELSE Ema(Head(fh.baseFeePerGas), Tail(fh.baseFeePerGas))

\* The k-th smallest (from 0) of the values of a sequence.
KthSmallest(xs, k) ==
    CHOOSE v \in {xs[i] : i \in DOMAIN xs} :
        /\ Cardinality({i \in DOMAIN xs : xs[i] < v}) <= k
        /\ Cardinality({i \in DOMAIN xs : xs[i] <= v}) > k

\* _calculate_priority_fee
PriorityFee(fh) ==
    LET p50 == SelectSeq(fh.reward, LAMBDA r : Len(r) > 1)
        fees == [i \in DOMAIN p50 |-> p50[i][2]]
    IN IF fees = <<>> THEN DefaultPriorityFee
       ELSE KthSmallest(fees, Len(fees) \div 2)

\* Lines 512-524: the clamp of 4 x approval gas to 50%..300% of the baseline.
DynamicGasLimit(base_limit, approval_gas) ==
    LET dynamic_limit == approval_gas * 4
    IN IF approval_gas <= 0 THEN base_limit
       ELSE IF dynamic_limit > base_limit * 3 THEN base_limit * 3
       ELSE IF dynamic_limit * 2 < base_limit THEN base_limit \div 2
       ELSE dynamic_limit

\* gas_limit * (base + priority) * SAFETY_BUFFER / 1e18 * native_price, in
\* cents; fixed-point with truncation.
GasCostUsd(gas_limit, base_fee, priority_fee, price) ==
    (((gas_limit * (base_fee + priority_fee) * 11) \div 1000) * price) \div 100000

(***************************************************************************)
(* Data fetchers.  Each takes the shared state sh = [cb, cache, net], the  *)
(* clock and the upstream's answer, and returns the new shared state with  *)
(* the value fetched.                                                      *)
(***************************************************************************)
Touch(sh, what) == [sh EXCEPT !.net = @ \cup what]

\* call_async(breaker, func) with the upstream answering `outcome`:
\* "rejected" when the breaker is open and func is never invoked.
ThroughBreaker(sh, name, outcome, t) ==
    IF CallAdmits(sh.cb[name], t)
    THEN [sh |-> [Touch(sh, {name \o "_breaker", name \o "_upstream"})
                   EXCEPT !.cb[name] = Settle(CurrentState(sh.cb[name], t), outcome, t)],
          outcome |-> outcome]
    ELSE [sh |-> [Touch(sh, {name \o "_breaker"})
                   EXCEPT !.cb[name] = CurrentState(sh.cb[name], t)],
          outcome |-> "CircuitBreakerError"]

FeeHistoryOutcomes == {"live", "malformed", "TimeoutError"}

\* The answers that carry no "error" member: the HTTP status is not looked
\* at, and "no_result" is a body with neither "error" nor "result" (an error
\* page of the provider), read as data.get("result", {}).
FeeHistoryAnswers == {"live", "malformed", "no_result"}

\* _fetch_fee_history: every failure is swallowed into {}.
FetchFeeHistory(sh, chain, up, t) ==
    LET key == <<"fee_history", chain>>
        hit == CacheHas(sh.cache.fee_history, key, t)
        sh0 == Touch(sh, {"fee_history_cache"})
        r == ThroughBreaker(sh0, "rpc", IF up \in FeeHistoryAnswers THEN "ok" ELSE up, t)
        payload == IF up = "live" THEN LiveFeeHistory
                   ELSE IF up = "malformed" THEN MalformedFeeHistory
                   ELSE EmptyFeeHistory
    IN IF hit
       THEN [sh |-> [sh0 EXCEPT !.cache.fee_history = CacheUse(@, key)],
             value |-> CacheGet(sh.cache.fee_history, key),
             src |-> "cached", rpc_ok |-> FALSE, rpc_failed |-> FALSE]
       ELSE IF r.outcome = "ok"
       THEN [sh |-> [r.sh EXCEPT !.cache.fee_history =
                                    CachePut(@, key, payload, t, FeeHistoryTtl, FeeHistoryMaxSize)],
             value |-> payload, src |-> "live", rpc_ok |-> TRUE, rpc_failed |-> FALSE]
       ELSE [sh |-> r.sh, value |-> EmptyFeeHistory, src |-> "default",
             rpc_ok |-> FALSE, rpc_failed |-> TRUE]

PriceOutcomes == {"ok", "RateLimitError"}
MaxRetries == 3

PriceAttemptOneMoreRetry(sh, chain, attempt, up, t) ==
    LET token == NativeTokenId(chain)
        key == <<"price", token>>
        hit == attempt = 0 /\ CacheHas(sh.cache.native_price, key, t)
        sh0 == IF attempt = 0 THEN Touch(sh, {"native_price_cache"}) ELSE sh
        r == ThroughBreaker(sh0, "coingecko", up, t)
    IN IF hit
       THEN [sh |-> [sh0 EXCEPT !.cache.native_price = CacheUse(@, key)],
             again |-> FALSE, src |-> "cached",
             value |-> CacheGet(sh.cache.native_price, key)]
       ELSE IF r.outcome = "ok"
       THEN [sh |-> [r.sh EXCEPT !.cache.native_price =
                                    CachePut(@, key, LivePrice(token), t, NativePriceTtl,
                                             NativePriceMaxSize)],
             again |-> FALSE, src |-> "live", value |-> LivePrice(token)]
       ELSE IF r.outcome = "RateLimitError" /\ attempt < MaxRetries
       THEN [sh |-> r.sh, again |-> TRUE, src |-> "none", value |-> 0]
       ELSE [sh |-> r.sh, again |-> FALSE, src |-> "fallback",
             value |-> FallbackPrice(token)]

PriceAttemptRetriesAnyFailure(sh, chain, attempt, up, t) ==
    LET token == NativeTokenId(chain)
        key == <<"price", token>>
        hit == attempt = 0 /\ CacheHas(sh.cache.native_price, key, t)
        sh0 == IF attempt = 0 THEN Touch(sh, {"native_price_cache"}) ELSE sh
        r == ThroughBreaker(sh0, "coingecko", up, t)
    IN IF hit
       THEN [sh |-> [sh0 EXCEPT !.cache.native_price = CacheUse(@, key)],
             again |-> FALSE, src |-> "cached",
             value |-> CacheGet(sh.cache.native_price, key)]
       ELSE IF r.outcome = "ok"
       THEN [sh |-> [r.sh EXCEPT !.cache.native_price =
                                    CachePut(@, key, LivePrice(token), t, NativePriceTtl,
                                             NativePriceMaxSize)],
             again |-> FALSE, src |-> "live", value |-> LivePrice(token)]
       ELSE IF attempt < MaxRetries - 1
       THEN [sh |-> r.sh, again |-> TRUE, src |-> "none", value |-> 0]
       ELSE [sh |-> r.sh, again |-> FALSE, src |-> "fallback",
             value |-> FallbackPrice(token)]

\* One pass of the retry loop of _get_native_token_price, attempt = 0, 1, 2
\* (the cache is read once, before the loop).  again: the loop sleeps and
\* goes round once more.
PriceAttempt(sh, chain, attempt, up, t) ==
    LET token == NativeTokenId(chain)
        key == <<"price", token>>
        hit == attempt = 0 /\ CacheHas(sh.cache.native_price, key, t)
        sh0 == IF attempt = 0 THEN Touch(sh, {"native_price_cache"}) ELSE sh
        r == ThroughBreaker(sh0, "coingecko", up, t)
    IN IF hit
       THEN [sh |-> [sh0 EXCEPT !.cache.native_price = CacheUse(@, key)],
             again |-> FALSE, src |-> "cached",
             value |-> CacheGet(sh.cache.native_price, key)]
       ELSE IF r.outcome = "ok"
       THEN [sh |-> [r.sh EXCEPT !.cache.native_price =
                                    CachePut(@, key, LivePrice(token), t, NativePriceTtl,
                                             NativePriceMaxSize)],
             again |-> FALSE, src |-> "live", value |-> LivePrice(token)]
       ELSE IF r.outcome = "RateLimitError" /\ attempt < MaxRetries - 1
       THEN [sh |-> r.sh, again |-> TRUE, src |-> "none", value |-> 0]
       ELSE [sh |-> r.sh, again |-> FALSE, src |-> "fallback",
             value |-> FallbackPrice(token)]

EstimateOutcomes == {"ok", "TimeoutError"}

\* Lines 467-529: the dynamic gas limit; every failure keeps the baseline.
\* (USDC_ADDRESSES has every chain, so the estimate is always attempted.)
EstimateGasLimit(sh, chain, up, t) ==
    LET r == ThroughBreaker(sh, "rpc", up, t)
    IN IF r.outcome = "ok"
       THEN [sh |-> r.sh, value |-> DynamicGasLimit(BaseGasLimit(chain), ApprovalGas),
             src |-> "dynamic", rpc_ok |-> TRUE, rpc_failed |-> FALSE]
       ELSE [sh |-> r.sh, value |-> BaseGasLimit(chain), src |-> "default",
             rpc_ok |-> FALSE, rpc_failed |-> TRUE]

\* Lines 457-465 and 531-563: the estimate built from what was fetched.
GasCostEstimate(fh, fh_src, price, price_src, limit, limit_src) ==
    [kind |-> "ok",
     estimated_gas_limit |-> limit,
     base_fee |-> BaseFeePrediction(fh),
     priority_fee |-> PriorityFee(fh),
     total_cost_usd |-> GasCostUsd(limit, BaseFeePrediction(fh), PriorityFee(fh), price),
     native_token_price_usd |-> price,
     base_fee_src |-> IF fh.baseFeePerGas = <<>> THEN "default" ELSE fh_src,
     price_src |-> price_src,
     limit_src |-> limit_src]

ZeroAddress == "0x0000000000000000000000000000000000000000"
LiveWallet == "0xd8da6bf26964af9d7eed9e03e53415d37aa96045"

\* What the bridge-quote API answers to a quote of `amount` cents.
LifiResponses(amount) ==
    { [tool |-> "stargate", fromAmount |-> amount, toAmount |-> amount - 150,
       toAmountMin |-> amount - 400, gasCosts |-> 30, executionDuration |-> 120] }

QuoteOutcomes(amount) ==
    {[kind |-> "ok", data |-> d] : d \in LifiResponses(amount)}
      \cup {[kind |-> k, data |-> <<>>] :
              k \in {"http_422", "http_429", "TimeoutError"}}

QuoteError(e) == [kind |-> "error", error |-> e]

LocalQuote(amount_usd) ==
    [kind |-> "ok", provider |-> "Native", bridge_name |-> "Local Transfer",
     total_fee_usd |-> 0, min_amount_received |-> amount_usd * 100,
     estimated_duration_sec |-> 30, slippage_bps |-> 0]

\* Lines 627-667: the BridgeQuote parsed from a Li.Fi response.
ParseQuote(d) ==
    [kind |-> "ok", provider |-> "Li.Fi", bridge_name |-> d.tool,
     total_fee_usd |-> Max(0, d.fromAmount - d.toAmount) + d.gasCosts,
     min_amount_received |-> d.toAmountMin,
     estimated_duration_sec |-> d.executionDuration,
     slippage_bps |-> IF d.fromAmount > 0
                      THEN ((d.fromAmount - d.toAmountMin) * 10000) \div d.fromAmount
                      ELSE 50]

\* get_bridge_quote_v2(source, dest, amount_usd, wallet_address)
GetBridgeQuote(sh, source, dest, amount_usd, wallet, up, t) ==
    LET key == <<"bridge", source, dest, amount_usd>>
        sh0 == Touch(sh, {"bridge_quote_cache"})
        hit == CacheHas(sh.cache.bridge_quote, key, t)
        status == IF up.kind = "ok" THEN "ok"
                  ELSE IF up.kind \in {"http_422", "http_429"} THEN "HTTPStatusError"
                  ELSE up.kind
        r == ThroughBreaker(sh0, "lifi", status, t)
    IN IF wallet = "" \/ wallet = ZeroAddress
       THEN [sh |-> sh, value |-> QuoteError("ValueError")]
       ELSE IF source = dest
       THEN [sh |-> sh, value |-> LocalQuote(amount_usd)]
       ELSE IF hit
       THEN [sh |-> [sh0 EXCEPT !.cache.bridge_quote = CacheUse(@, key)],
             value |-> CacheGet(sh.cache.bridge_quote, key)]
       ELSE IF r.outcome = "ok"
       THEN [sh |-> [r.sh EXCEPT !.cache.bridge_quote =
                                    CachePut(@, key, ParseQuote(up.data), t, BridgeQuoteTtl,
                                             BridgeQuoteMaxSize)],
             value |-> ParseQuote(up.data)]
       ELSE IF r.outcome = "CircuitBreakerError"
       THEN [sh |-> r.sh, value |-> QuoteError("ExternalAPIError")]
       ELSE IF up.kind = "http_422"
       THEN [sh |-> r.sh, value |-> QuoteError("InsufficientLiquidityError")]
       ELSE IF up.kind = "http_429"
       THEN [sh |-> r.sh, value |-> QuoteError("ExternalAPIError")]
       ELSE [sh |-> r.sh, value |-> QuoteError("BridgeRouteError")]

(***************************************************************************)
(* analyze_route: requests, the four coroutines, the orchestrator.         *)
(***************************************************************************)
MaxClock == 31          \* SpecAnalyze: the clock stops here

RequestSources == {"Ethereum", "Arbitrum"}
RequestTargets == {"ethereum", "Arbitrum", "Mars"}
RequestCapitals == {1000}
RequestWallets == {LiveWallet}

Requests ==
    [current_chain : RequestSources, target_chain : RequestTargets,
     capital : RequestCapitals, wallet_address : RequestWallets]

GasTasks == {"sg", "dg"}
QuoteTasks == {"eq", "xq"}
Tasks == GasTasks \cup QuoteTasks

NoResult == [kind |-> "none"]
Failed(r) == r.kind = "error"

\* The locals of one estimate_gas_cost_v2 call before anything is fetched.
NoLocals ==
    [attempt |-> 0, fh |-> [value |-> EmptyFeeHistory, src |-> "none"],
     price |-> [value |-> 0, src |-> "none"]]

NewGasTask(chain) ==
    [pc |-> "fee_history", chain |-> chain, locals |-> NoLocals,
     rpc_ok |-> FALSE, rpc_failed |-> FALSE, result |-> NoResult]

NewQuoteTask(source, dest) ==
    [pc |-> "quote", source |-> source, dest |-> dest, result |-> NoResult]

\* Lines 849-864: the four coroutines handed to asyncio.gather.
LaunchTasks(r, target_enum) ==
    [t \in Tasks |->
        CASE t = "sg" -> NewGasTask(r.current_chain)
          [] t = "dg" -> NewGasTask(target_enum)
          [] t = "eq" -> NewQuoteTask(r.current_chain, target_enum)
          [] t = "xq" -> NewQuoteTask(target_enum, r.current_chain)]

Shared == [cb |-> cb, cache |-> cache, net |-> net]

Publish(sh) == cb' = sh.cb /\ cache' = sh.cache /\ net' = sh.net

\* The fallback quote of lines 907-919: 0.1% of capital, 50 bps, 300 s.
FallbackQuote(capital) ==
    [kind |-> "ok", provider |-> "Fallback", bridge_name |-> "Estimated Bridge",
     total_fee_usd |-> (capital * 100) \div 1000,
     min_amount_received |-> (capital * 100 * 999) \div 1000,
     estimated_duration_sec |-> 300, slippage_bps |-> 50]

FallbackAbsorbsAnything(e) == e = e

\* Line 904: the errors of the second entry-quote attempt that the fallback
\* quote absorbs.
FallbackAbsorbs(e) == e \in {"ExternalAPIError", "CircuitBreakerError"}

GasFailureAsRouteError == "BridgeRouteError"

\* Lines 880-882 and 888-890: what a failed second gas estimate raises.
GasFailureError == "ExternalAPIError"

ExitBridgeFeeWaived(bridge_quote, exit_quote_result) ==
    IF Failed(exit_quote_result) THEN 0 ELSE exit_quote_result.total_fee_usd

\* Lines 926-930: the exit leg's bridge fee.
ExitBridgeFee(bridge_quote, exit_quote_result) ==
    IF Failed(exit_quote_result) THEN bridge_quote.total_fee_usd
    ELSE exit_quote_result.total_fee_usd

ExitDestGasRawTarget(r, target_enum, source_gas) ==
    IF r.current_chain = "Ethereum" /\ r.target_chain # "Ethereum"
    THEN (source_gas * 5) \div 2
    ELSE source_gas

\* Lines 944-947: the return leg's destination gas, with the 2.5x surcharge.
ExitDestGas(r, target_enum, source_gas) ==
    IF r.current_chain = "Ethereum" /\ target_enum # "Ethereum"
    THEN (source_gas * 5) \div 2
    ELSE source_gas

\* calculate_round_trip_costs(..., symmetric=False)
RoundTripCosts(entry_bridge_fee, entry_source_gas, entry_dest_gas, exit_bridge_fee, exit_source_gas, exit_dest_gas) ==
    [entry |-> [bridge_fee |-> entry_bridge_fee, source_gas |-> entry_source_gas,
                dest_gas |-> entry_dest_gas,
                total |-> entry_bridge_fee + entry_source_gas + entry_dest_gas],
     exit |-> [bridge_fee |-> exit_bridge_fee, source_gas |-> exit_source_gas,
               dest_gas |-> exit_dest_gas,
               total |-> exit_bridge_fee + exit_source_gas + exit_dest_gas],
     round_trip_total |-> entry_bridge_fee + entry_source_gas + entry_dest_gas
                          + exit_bridge_fee + exit_source_gas + exit_dest_gas]

\* Lines 961-1049: the RouteCalculation built from the quote, the risk
\* assessment and the round-trip costs.
Assemble(bridge_quote, bridge_risk, round_trip) ==
    [kind |-> "RouteCalculation",
     bridge_cost |-> round_trip.entry.bridge_fee,
     gas_cost |-> round_trip.entry.source_gas + round_trip.entry.dest_gas,
     total_cost |-> round_trip.round_trip_total,
     risk_score |-> bridge_risk.risk_score,
     risk_level |-> ScoreToRiskLevel(bridge_risk.risk_score),
     bridge_name |-> IF bridge_quote.provider # "Fallback"
                     THEN bridge_quote.bridge_name ELSE bridge_risk.bridge_name,
     estimated_time |-> IF bridge_quote.provider # "Fallback"
                        THEN [form |-> "min",
                              minutes |-> bridge_quote.estimated_duration_sec \div 60]
                        ELSE bridge_risk.estimated_time,
     has_exploits |-> bridge_risk.has_exploits,
     bridge_metadata |-> bridge_risk.bridge_metadata,
     cost_breakdown |-> round_trip,
     tvl_source |-> "fallback"]

Raise(e) ==
    /\ orch' = [orch EXCEPT !.pc = "done", !.result = [kind |-> "error", error |-> e]]
    /\ task' = task

\* Lines 923-1049: the entry quote is settled; the exit fee, the risk
\* assessment and the round-trip costs are computed and the result returned.
Finish(o, bridge_quote) ==
    \E bridge_risk \in {GetBridgeRisk(req.current_chain, req.target_chain,
                                       bridge_quote.bridge_name)},
       round_trip \in {RoundTripCosts(bridge_quote.total_fee_usd, task.sg.result.total_cost_usd, task.dg.result.total_cost_usd, ExitBridgeFee(bridge_quote, task.xq.result), task.dg.result.total_cost_usd, ExitDestGas(req, o.target_enum, task.sg.result.total_cost_usd))} :
        /\ orch' = [o EXCEPT !.pc = "done", !.bridge_quote = bridge_quote,
                             !.result = Assemble(bridge_quote, bridge_risk, round_trip)]
        /\ task' = task

\* Lines 892-900
InspectEntry(o) ==
    IF Failed(task.eq.result)
    THEN /\ orch' = [o EXCEPT !.pc = "entry_retry"]
         /\ task' = [task EXCEPT !.eq = NewQuoteTask(req.current_chain, o.target_enum)]
    ELSE Finish(o, task.eq.result)

\* Lines 884-887
InspectTargetGas(o) ==
    IF Failed(task.dg.result)
    THEN /\ orch' = [o EXCEPT !.pc = "target_gas_retry"]
         /\ task' = [task EXCEPT !.dg = NewGasTask(o.target_enum)]
    ELSE InspectEntry(o)

\* Lines 876-879
InspectSourceGas(o) ==
    IF Failed(task.sg.result)
    THEN /\ orch' = [o EXCEPT !.pc = "source_gas_retry"]
         /\ task' = [task EXCEPT !.sg = NewGasTask(req.current_chain)]
    ELSE InspectTargetGas(o)

\* asyncio.gather(..., return_exceptions=True) returns once all four
\* coroutines have returned or raised.
GatherReturns(tk) == \A t \in Tasks : tk[t].pc = "done"

NoTasks == [t \in Tasks |-> [pc |-> "idle", result |-> NoResult]]

BreakerIdle ==
    /\ brk = <<>> /\ calls = <<>> /\ streak = 0 /\ ev = <<>>

AnalyzeInit ==
    /\ now = StartTime
    /\ BreakerIdle
    /\ \E r \in {RpcBreaker, Tripped(RpcBreaker, StartTime)},
          l \in {LifiBreaker, Tripped(LifiBreaker, StartTime)} :
          cb = [rpc |-> r, lifi |-> l, coingecko |-> CoingeckoBreaker]
    /\ cache = [fee_history |-> EmptyCache, native_price |-> EmptyCache,
                bridge_quote |-> EmptyCache]
    /\ req \in Requests
    /\ task = NoTasks
    /\ orch = [pc |-> "start", target_enum |-> NoChain, first |-> <<>>,
               bridge_quote |-> NoResult, result |-> NoResult]
    /\ net = {}

\* Lines 824-864: the target is normalised and the four coroutines created.
AnalyzeStart ==
    /\ orch.pc = "start"
    /\ \E target_enum \in {NormalizeTarget(req.target_chain)} :
         IF target_enum = NoChain
         THEN Raise("ValueError")
         ELSE /\ orch' = [orch EXCEPT !.pc = "gather", !.target_enum = target_enum]
              /\ task' = LaunchTasks(req, target_enum)
    /\ UNCHANGED <<now, cb, cache, req, net, breakerVars>>

\* estimate_gas_cost_v2, lines 451-455: _fetch_fee_history.  The fee history
\* and the price use different breakers and caches; they are taken in the
\* order in which the code starts them.
GasFeeHistory(t) ==
    /\ task[t].pc = "fee_history"
    /\ \E up \in FeeHistoryOutcomes :
         LET r == FetchFeeHistory(Shared, task[t].chain, up, now)
         IN /\ Publish(r.sh)
            /\ task' = [task EXCEPT ![t].pc = "price",
                                    ![t].locals.fh = [value |-> r.value, src |-> r.src],
                                    ![t].rpc_ok = r.rpc_ok,
                                    ![t].rpc_failed = r.rpc_failed]
    /\ UNCHANGED <<now, req, orch, breakerVars>>

\* estimate_gas_cost_v2: one pass of the price loop of _get_native_token_price.
GasPrice(t) ==
    /\ task[t].pc = "price"
    /\ \E up \in PriceOutcomes :
         LET r == PriceAttempt(Shared, task[t].chain, task[t].locals.attempt, up, now)
         IN /\ Publish(r.sh)
            /\ task' = IF r.again
                       THEN [task EXCEPT ![t].locals.attempt = @ + 1]
                       ELSE [task EXCEPT ![t].pc = "estimate",
                                         ![t].locals.attempt = 0,
                                         ![t].locals.price = [value |-> r.value, src |-> r.src]]
    /\ UNCHANGED <<now, req, orch, breakerVars>>

\* estimate_gas_cost_v2 from line 457: the fee prediction (which raises on a
\* fee history it cannot parse), eth_estimateGas, and the estimate.
GasEstimate(t) ==
    /\ task[t].pc = "estimate"
    /\ IF ~Parses(task[t].locals.fh.value)
       THEN /\ task' = [task EXCEPT ![t].pc = "done", ![t].locals = NoLocals,
                                    ![t].result = [kind |-> "error", error |-> "ValueError"]]
            /\ UNCHANGED <<cb, cache, net>>
       ELSE \E up \in EstimateOutcomes :
              LET r == EstimateGasLimit(Shared, task[t].chain, up, now)
              IN /\ Publish(r.sh)
                 /\ task' = [task EXCEPT
                       ![t].pc = "done", ![t].locals = NoLocals,
                       ![t].rpc_ok = @ \/ r.rpc_ok,
                       ![t].rpc_failed = @ \/ r.rpc_failed,
                       ![t].result = GasCostEstimate(task[t].locals.fh.value,
                                        task[t].locals.fh.src,
                                        task[t].locals.price.value,
                                        task[t].locals.price.src, r.value, r.src)]
    /\ UNCHANGED <<now, req, orch, breakerVars>>

\* get_bridge_quote_v2 as one of the coroutines.
QuoteFetch(t) ==
    /\ task[t].pc = "quote"
    /\ \E up \in QuoteOutcomes(req.capital * 100) :
         LET r == GetBridgeQuote(Shared, task[t].source, task[t].dest, req.capital,
                                 req.wallet_address, up, now)
         IN /\ Publish(r.sh)
            /\ task' = [task EXCEPT ![t].pc = "done", ![t].result = r.value]
    /\ UNCHANGED <<now, req, orch, breakerVars>>

JoinOnFirstException ==
    /\ orch.pc = "gather"
    /\ \/ GatherReturns(task)
          /\ InspectSourceGas([orch EXCEPT !.first = [t \in Tasks |-> task[t].result]])
       \/ \E t \in Tasks : task[t].pc = "done" /\ Failed(task[t].result)
                             /\ Raise(task[t].result.error)
    /\ UNCHANGED <<now, cb, cache, req, net, breakerVars>>

\* Line 868: gather returns; lines 873-: the results are inspected in order.
Join ==
    /\ orch.pc = "gather"
    /\ GatherReturns(task)
    /\ InspectSourceGas([orch EXCEPT !.first = [t \in Tasks |-> task[t].result]])
    /\ UNCHANGED <<now, cb, cache, req, net, breakerVars>>

\* Lines 879-882: the second source gas estimate returns or raises.
SourceGasRetried ==
    /\ orch.pc = "source_gas_retry"
    /\ task.sg.pc = "done"
    /\ IF Failed(task.sg.result) THEN Raise(GasFailureError)
       ELSE InspectTargetGas(orch)
    /\ UNCHANGED <<now, cb, cache, req, net, breakerVars>>

\* Lines 887-890: the second target gas estimate returns or raises.
TargetGasRetried ==
    /\ orch.pc = "target_gas_retry"
    /\ task.dg.pc = "done"
    /\ IF Failed(task.dg.result) THEN Raise(GasFailureError)
       ELSE InspectEntry(orch)
    /\ UNCHANGED <<now, cb, cache, req, net, breakerVars>>

EntryRetriedUntilQuoted ==
    /\ orch.pc = "entry_retry"
    /\ task.eq.pc = "done"
    /\ IF ~Failed(task.eq.result) THEN Finish(orch, task.eq.result)
       ELSE /\ orch' = orch
            /\ task' = [task EXCEPT !.eq = NewQuoteTask(req.current_chain, orch.target_enum)]
    /\ UNCHANGED <<now, cb, cache, req, net, breakerVars>>

\* Lines 895-921: the second entry quote returns or raises.
EntryRetried ==
    /\ orch.pc = "entry_retry"
    /\ task.eq.pc = "done"
    /\ IF ~Failed(task.eq.result) THEN Finish(orch, task.eq.result)
       ELSE IF FallbackAbsorbs(task.eq.result.error)
       THEN Finish(orch, FallbackQuote(req.capital))
       ELSE Raise("BridgeRouteError")
    /\ UNCHANGED <<now, cb, cache, req, net, breakerVars>>

TickDeltas == {RpcResetTimeout}

RetryPhases == {"source_gas_retry", "target_gas_retry", "entry_retry"}

\* Time passes between the first round of fetches and a second attempt.
AnalyzeTick ==
    /\ orch.pc \in RetryPhases
    /\ \E d \in TickDeltas : now + d <= MaxClock /\ now' = now + d
    /\ UNCHANGED <<cb, cache, req, task, orch, net, breakerVars>>

TaskStep(t) == GasFeeHistory(t) \/ GasPrice(t) \/ GasEstimate(t) \/ QuoteFetch(t)

AnalyzeNext ==
    \/ AnalyzeStart
    \/ \E t \in GasTasks : GasFeeHistory(t)
    \/ \E t \in GasTasks : GasPrice(t)
    \/ \E t \in GasTasks : GasEstimate(t)
    \/ \E t \in QuoteTasks : QuoteFetch(t)
    \/ Join
    \/ SourceGasRetried
    \/ TargetGasRetried
    \/ EntryRetried
    \/ AnalyzeTick

SpecAnalyze == AnalyzeInit /\ [][AnalyzeNext]_vars

(***************************************************************************)
(* Circuit breaker properties.                                             *)
(***************************************************************************)
EnteredCall == ev'.kind \in {"admitted", "rejected"}
SettledWith(kinds) == ev'.kind = "settled" /\ ev'.outcome \in kinds
RecordedFailures == {k \in Outcomes : k # "ok" /\ ~IsExcluded(brk, k)}
ExcludedFailures == {k \in Outcomes : k # "ok" /\ IsExcluded(brk, k)}
SinceLastFailure == now - brk.last_failure_time

\* C1: with fail_max = N >= 1, the step that records the N-th consecutive
\* non-excluded failure (no success recorded in between) leaves the breaker
\* open, and a call entered after N such failures, before reset_timeout has
\* elapsed since the last of them, is rejected with CircuitBreakerError and
\* starts no operation.
C1_TripsAfterFailMax ==
    [][ /\ (SettledWith(RecordedFailures) /\ streak' >= brk.fail_max)
              => brk'.state = "open"
        /\ (EnteredCall /\ streak >= brk.fail_max
               /\ SinceLastFailure < brk.reset_timeout)
              => /\ ev'.kind = "rejected"
                 /\ ev'.outcome = "CircuitBreakerError"
                 /\ calls' = calls
      ]_vars

C1_Witness ==
    /\ ev.kind = "rejected"
    /\ brk.fail_max = MaxFailMax
    /\ streak = brk.fail_max
    /\ brk.state = "open"
    /\ SinceLastFailure < brk.reset_timeout

\* C2: a call entered on an open breaker once reset_timeout has elapsed since
\* the last recorded failure is attempted and the state becomes half_open; a
\* success recorded in half_open closes the breaker and resets the failure
\* counter to 0; a non-excluded failure recorded in half_open reopens it.
C2_RecoveryThroughHalfOpen ==
    [][ /\ (EnteredCall /\ brk.state = "open"
               /\ SinceLastFailure >= brk.reset_timeout)
              => /\ ev'.kind = "admitted"
                 /\ brk'.state = "half_open"
                 /\ calls'[ev'.caller] = "inflight"
        /\ (SettledWith({"ok"}) /\ brk.state = "half_open")
              => brk'.state = "closed" /\ brk'.fail_counter = 0
        /\ (SettledWith(RecordedFailures) /\ brk.state = "half_open")
              => brk'.state = "open"
      ]_vars

C2_Witness ==
    /\ ev.kind = "settled"
    /\ ev.before = "half_open"
    /\ ev.outcome = "ok"
    /\ brk.state = "closed"
    /\ brk.fail_counter = 0
    /\ brk.fail_max = MaxFailMax

\* C3: a call failing with an excluded error kind leaves the failure counter
\* and the state as they were, however many such calls occur; as long as no
\* non-excluded failure was recorded since the last success the breaker is
\* closed with a counter of 0.
C3_ExcludedNeverCounted ==
    [][ /\ SettledWith(ExcludedFailures)
              => /\ brk'.fail_counter = brk.fail_counter
                 /\ brk'.state = brk.state
        /\ streak' = 0 => brk'.state = "closed" /\ brk'.fail_counter = 0
      ]_vars

C3_Witness ==
    /\ ev.kind = "settled"
    /\ ev.outcome = "RateLimitError"
    /\ IsExcluded(brk, "RateLimitError")
    /\ brk.fail_max = MaxFailMax
    /\ brk.fail_counter = brk.fail_max - 1
    /\ brk.state = "closed"

(***************************************************************************)
(* analyze_route properties.                                               *)
(***************************************************************************)
Served == orch.pc = "done" /\ orch.target_enum # NoChain
Returned == Served /\ orch.result.kind = "RouteCalculation"
RaisedError(e) == Served /\ orch.result = [kind |-> "error", error |-> e]
SameChain == orch.target_enum = req.current_chain
FirstFailed == {t \in Tasks : Failed(orch.first[t])}
FallbackFee == (req.capital * 100) \div 1000

\* C4: when the gas estimate of either leg has failed for good (the first
\* attempt and the orchestrator's second attempt), analyze ends with
\* ExternalAPIError and with no route result, whatever the two bridge quotes
\* came to.
C4_GasFailureFailsAnalyze ==
    (Served /\ (Failed(task.sg.result) \/ Failed(task.dg.result)))
        => RaisedError("ExternalAPIError")

C4_Witness ==
    /\ RaisedError("ExternalAPIError")
    /\ orch.pc = "done" /\ Failed(task.dg.result) /\ ~Failed(task.sg.result)
    /\ task.eq.result.kind = "ok" /\ task.xq.result.kind = "ok"

\* C5: a gas estimation whose every RPC call failed or was rejected by the
\* open RPC breaker ends in an error, never in an estimate.
C5_GasFailsWithoutRpc ==
    \A t \in GasTasks :
        (task[t].pc = "done" /\ task[t].rpc_failed /\ ~task[t].rpc_ok)
            => Failed(task[t].result)

C7_ExitFeeIsFallbackFee ==
    (Returned /\ FirstFailed = {"xq"})
        => orch.result.cost_breakdown.exit.bridge_fee = FallbackFee

\* C7 as the code has it: when the exit quote is the only fetch to fail, the
\* exit leg's bridge fee is the fee of the entry quote.
C7_ExitFeeIsEntryFee ==
    (Returned /\ FirstFailed = {"xq"})
        => /\ orch.result.cost_breakdown.exit.bridge_fee = task.eq.result.total_fee_usd
           /\ orch.result.cost_breakdown.exit.bridge_fee
                 = orch.result.cost_breakdown.entry.bridge_fee

C7_Witness ==
    /\ Returned /\ FirstFailed = {"xq"}
    /\ orch.result.cost_breakdown.exit.bridge_fee > 0

\* C8: while the four fetches are joined every unfinished fetch can still
\* take its step whatever the others came to, a finished fetch keeps its
\* outcome, and the orchestrator moves on only when all four are finished,
\* with the four outcomes in hand.
C8_AllOutcomesCollected ==
    /\ [](orch.pc = "gather"
            => \A t \in Tasks : task[t].pc # "done" => ENABLED TaskStep(t))
    /\ [][orch.pc = "gather"
            => IF orch'.pc = "gather"
               THEN \A t \in Tasks : task[t].pc = "done" => task'[t] = task[t]
               ELSE /\ \A t \in Tasks : task[t].pc = "done"
                    /\ orch'.first = [t \in Tasks |-> task[t].result]]_vars

C8_Witness ==
    /\ orch.pc # "gather" /\ orch.first # <<>>
    /\ Failed(orch.first.sg) /\ Failed(orch.first.eq)
    /\ ~Failed(orch.first.dg) /\ ~Failed(orch.first.xq)

\* C9: a request whose target is its own chain is answered with a bridge fee
\* of zero, a bridge time of zero minutes and a risk score of 100.
C9_SameChainIsFreeAndSafe ==
    (Returned /\ SameChain)
        => /\ orch.result.bridge_cost = 0
           /\ orch.result.estimated_time.minutes = 0
           /\ orch.result.risk_score = 100

\* C10: a request whose target is its own chain touches no upstream, no
\* breaker and no cache.
C10_SameChainTouchesNothing ==
    (orch.pc # "start" /\ SameChain) => net = {}

\* C11: a bridge-quote fetch that ends in ExternalAPIError (the API answered
\* HTTP 429, or the breaker rejected the call) leaves the bridge-quote
\* breaker's failure counter and state as they were.
C11_RateLimitNotCounted ==
    [][\A t \in QuoteTasks :
          (task[t].pc = "quote" /\ task'[t].pc = "done"
             /\ task'[t].result = QuoteError("ExternalAPIError"))
            => /\ cb'.lifi.fail_counter = cb.lifi.fail_counter
               /\ cb'.lifi.state = cb.lifi.state]_vars

(***************************************************************************)
(* SpecPrice: _get_native_token_price called again and again, one call at  *)
(* a time, against a price API that answers, rate-limits or fails.         *)
(***************************************************************************)
MaxPriceCalls == 3
MaxPriceClock == 130

BaseDelay == 1

\* The call in progress: upstream counts the requests that reached the API,
\* limited those it answered with 429.
NoPriceCall ==
    [pc |-> "idle", chain |-> "-", attempt |-> 0, upstream |-> 0, limited |-> 0,
     src |-> "none", value |-> 0, n |-> 0]

PriceIdle ==
    /\ brk = <<>> /\ calls = <<>> /\ streak = 0
    /\ req = <<>> /\ task = <<>> /\ orch = <<>>

PriceInit ==
    /\ now = StartTime
    /\ PriceIdle
    /\ \E c \in {CoingeckoBreaker,
                  [CoingeckoBreaker EXCEPT !.fail_counter = CoingeckoFailMax - 1,
                                           !.last_failure_time = StartTime],
                  Tripped(CoingeckoBreaker, StartTime)} :
          cb = [rpc |-> RpcBreaker, lifi |-> LifiBreaker, coingecko |-> c]
    /\ cache = [fee_history |-> EmptyCache, native_price |-> EmptyCache,
                bridge_quote |-> EmptyCache]
    /\ net = {}
    /\ ev = NoPriceCall

\* Lines 300-309: a caller enters; nothing is read yet.
PriceCall(chain) ==
    /\ ev.pc \in {"idle", "done"}
    /\ ev.n < MaxPriceCalls
    /\ ev' = [NoPriceCall EXCEPT !.pc = "loop", !.chain = chain, !.n = ev.n + 1]
    /\ net' = {}
    /\ UNCHANGED <<now, cb, cache, brk, calls, streak, req, task, orch>>

\* Lines 304-369: the cache read and one pass of the loop, the API
\* answering `up` if it is asked.
PricePass(up) ==
    /\ ev.pc = "loop"
    /\ \E r \in {PriceAttempt([Shared EXCEPT !.net = {}], ev.chain, ev.attempt, up, now)} :
          /\ cb' = r.sh.cb
          /\ cache' = r.sh.cache
          /\ net' = net \cup r.sh.net
          /\ ev' = [ev EXCEPT
                      !.pc = IF r.again THEN "sleep" ELSE "done",
                      !.upstream = IF "coingecko_upstream" \in r.sh.net THEN @ + 1 ELSE @,
                      !.limited = IF "coingecko_upstream" \in r.sh.net
                                     /\ up = "RateLimitError" THEN @ + 1 ELSE @,
                      !.src = r.src,
                      !.value = r.value]
    /\ UNCHANGED <<now, brk, calls, streak, req, task, orch>>

\* Lines 345-348: asyncio.sleep(base_delay * 2 ** attempt + uniform(0, 1)),
\* in whole seconds.
PriceSleep ==
    /\ ev.pc = "sleep"
    /\ \E jitter \in {0, 1} : now' = now + BaseDelay * 2 ^ ev.attempt + jitter
    /\ ev' = [ev EXCEPT !.pc = "loop", !.attempt = @ + 1]
    /\ UNCHANGED <<cb, cache, net, brk, calls, streak, req, task, orch>>

\* Between calls the clock moves on by the price TTL.
PriceTick ==
    /\ ev.pc = "done"
    /\ now + NativePriceTtl <= MaxPriceClock
    /\ now' = now + NativePriceTtl
    /\ UNCHANGED <<ev, cb, cache, net, brk, calls, streak, req, task, orch>>

PriceNext ==
    \/ \E chain \in {"Ethereum", "Polygon"} : PriceCall(chain)
    \/ \E up \in PriceOutcomes \cup {"HTTPStatusError"} : PricePass(up)
    \/ PriceSleep
    \/ PriceTick

SpecPrice == PriceInit /\ [][PriceNext]_vars

\* The pass just taken reached the API and was answered with 429.
PassRateLimited == ev.pc = "loop" /\ ev'.limited = ev.limited + 1

\* C12: a call of the native-price fetcher sends at most 3 requests to the
\* price API; a call whose every request was rate-limited returns the
\* hardcoded fallback price of the token (it returns, it does not raise); and
\* a pass answered with 429 leaves the price breaker's failure counter and
\* last failure time alone, its state being the one the admission of the
\* call read (open becomes half_open there, before the request is sent).
C12_RateLimitHandledInternally ==
    /\ [](ev.upstream <= MaxRetries)
    /\ []((ev.pc = "done" /\ ev.upstream > 0 /\ ev.limited = ev.upstream)
            => (ev.src = "fallback"
                  /\ ev.value = FallbackPrice(NativeTokenId(ev.chain))))
    /\ [][PassRateLimited
            => /\ cb'.coingecko = CurrentState(cb.coingecko, now)
               /\ cb'.coingecko.fail_counter = cb.coingecko.fail_counter
               /\ cb'.coingecko.state # "open"]_vars

C12_Witness ==
    /\ ev.pc = "done" /\ ev.limited = MaxRetries /\ ev.upstream = MaxRetries
    /\ ev.src = "fallback"
    /\ cb.coingecko.fail_counter = CoingeckoFailMax - 1
    /\ cb.coingecko.state = "closed"

(***************************************************************************)
(* SpecCache: one TTLCache(maxsize, ttl) written and read as the fetchers  *)
(* do (`key in cache`, cache[key], cache[key] = value) while time passes.  *)
(***************************************************************************)
MaxCacheKeys == 3
MaxCacheSize == 2
MaxCacheTtl == 2
MaxCacheClock == 5
MaxCacheSets == 4

CacheKeys == 1..MaxCacheKeys
Unset == [value |-> None, at |-> None]

CacheInit ==
    /\ now = StartTime
    /\ PriceIdle
    /\ cb = <<>>
    /\ cache = EmptyCache
    /\ net = [op |-> "none", key |-> 0, at |-> StartTime, hit |-> FALSE, value |-> None,
              sets |-> 0]
    /\ ev = [stored |-> [k \in CacheKeys |-> Unset], evicted |-> {},
             inserted |-> <<>>, used |-> <<>>]

\* cache[k] = v.  stored remembers the write, inserted the keys in the order
\* of their last write, used the keys in the order of their last write or
\* read hit; evicted the keys whose unexpired entry this write pushed out.
CacheSet(k, v) ==
    /\ net.sets < MaxCacheSets
    /\ cache' = CachePut(cache, k, v, now, MaxCacheTtl, MaxCacheSize)
    /\ net' = [net EXCEPT !.op = "set", !.key = k, !.at = now, !.hit = FALSE,
                          !.value = v, !.sets = @ + 1]
    /\ ev' = [stored |-> [ev.stored EXCEPT ![k] = [value |-> v, at |-> now]],
              evicted |-> (ev.evicted \ {k})
                            \cup {j \in CacheKeys : CacheHas(cache, j, now)
                                                     /\ ~CacheHas(cache', j, now)},
              inserted |-> Append(SelectSeq(ev.inserted, LAMBDA j : j # k), k),
              used |-> Append(SelectSeq(ev.used, LAMBDA j : j # k), k)]
    /\ UNCHANGED <<now, cb, req, task, orch, brk, calls, streak>>

\* `k in cache`, then cache[k] on a hit.
CacheRead(k) ==
    /\ net' = [net EXCEPT !.op = "get", !.key = k, !.at = now,
                          !.hit = CacheHas(cache, k, now),
                          !.value = IF CacheHas(cache, k, now)
                                    THEN CacheGet(cache, k) ELSE None]
    /\ cache' = IF CacheHas(cache, k, now) THEN CacheUse(cache, k) ELSE cache
    /\ ev' = IF CacheHas(cache, k, now)
             THEN [ev EXCEPT !.used = Append(SelectSeq(@, LAMBDA j : j # k), k)]
             ELSE ev
    /\ UNCHANGED <<now, cb, req, task, orch, brk, calls, streak>>

CacheTick ==
    /\ now < MaxCacheClock
    /\ now' = now + 1
    /\ UNCHANGED <<cache, net, ev, cb, req, task, orch, brk, calls, streak>>

CacheNext ==
    \/ \E k \in CacheKeys, v \in {10, 20} : CacheSet(k, v)
    \/ \E k \in CacheKeys : CacheRead(k)
    \/ CacheTick

SpecCache == CacheInit /\ [][CacheNext]_vars

\* The read just made was of a key written earlier, less than / at least
\* the time-to-live ago.
ReadOfStored == net.op = "get" /\ ev.stored[net.key] # Unset
ReadBeforeTtl == ReadOfStored /\ net.at - ev.stored[net.key].at < MaxCacheTtl
ReadAfterTtl == ReadOfStored /\ net.at - ev.stored[net.key].at >= MaxCacheTtl

\* C13 as stated: a value stored with time-to-live T is returned unchanged
\* by every read made before T has elapsed since it was stored, and is
\* absent for every read made at or after T.
C13_StoredValueReadUntilTtl ==
    /\ ReadBeforeTtl => (net.hit /\ net.value = ev.stored[net.key].value)
    /\ ReadAfterTtl => ~net.hit

\* C13, amended: a read made before T has elapsed returns the stored value
\* unchanged unless a later write of another key found the cache full and
\* pushed the entry out; a read made at or after T finds the key absent;
\* a read never returns anything but the value last stored.
C13_StoredValueReadUntilTtlOrEvicted ==
    /\ ReadBeforeTtl => \/ net.hit /\ net.value = ev.stored[net.key].value
                        \/ ~net.hit /\ net.key \in ev.evicted
    /\ ReadAfterTtl => ~net.hit
    /\ (net.op = "get" /\ net.hit) => (ReadBeforeTtl /\ net.key \notin ev.evicted)

C13_Witness ==
    /\ ReadBeforeTtl /\ net.hit
    /\ net.at > ev.stored[net.key].at
    /\ ev.evicted # {}
    /\ \E k \in CacheKeys :
          ev.stored[k] # Unset /\ net.at - ev.stored[k].at >= MaxCacheTtl

(***************************************************************************)
(* SpecRisk: get_bridge_risk asked again and again on one service, with    *)
(* and without a bridge name, while the breakers, the caches and the clock *)
(* change under it.                                                        *)
(***************************************************************************)
MaxRiskCalls == 4
MaxRiskClock == 3

RiskPairs == {"Ethereum", "Arbitrum", "Base"} \X {"Ethereum", "Arbitrum", "Optimism"}

\* answers[p]: the (bridge, score) pairs given so far for pair p with no
\* bridge name; asked[p]: how often; named: calls made with a bridge name;
\* n: all calls.
RiskInit ==
    /\ now = StartTime
    /\ PriceIdle
    /\ cb = [rpc |-> RpcBreaker, lifi |-> LifiBreaker, coingecko |-> CoingeckoBreaker]
    /\ cache = [fee_history |-> EmptyCache, native_price |-> EmptyCache,
                bridge_quote |-> EmptyCache]
    /\ net = {}
    /\ ev = [answers |-> [p \in RiskPairs |-> {}], asked |-> [p \in RiskPairs |-> 0],
             named |-> 0, n |-> 0]

\* get_bridge_risk(source, target, bridge_name)
RiskCall(p, bridge_name) ==
    /\ ev.n < MaxRiskCalls
    /\ \E r \in {GetBridgeRisk(p[1], p[2], bridge_name)} :
          ev' = IF bridge_name = ""
                THEN [ev EXCEPT !.answers[p] = @ \cup {<<r.bridge_name, r.risk_score>>},
                                !.asked[p] = @ + 1, !.n = @ + 1]
                ELSE [ev EXCEPT !.named = @ + 1, !.n = @ + 1]
    /\ UNCHANGED <<now, cb, cache, net, brk, calls, streak, req, task, orch>>

\* Other traffic: time passes, the bridge-quote breaker trips or the
\* bridge-quote cache takes an entry.
RiskDisturb(what) ==
    /\ what = "tick" => now < MaxRiskClock
    /\ now' = IF what = "tick" THEN now + 1 ELSE now
    /\ cb' = IF what = "trip" THEN [cb EXCEPT !.lifi = Tripped(LifiBreaker, now)] ELSE cb
    /\ cache' = IF what = "cached"
                THEN [cache EXCEPT !.bridge_quote =
                         CachePut(@, <<"bridge", "Ethereum", "Arbitrum", 1000>>,
                                  FallbackQuote(1000), now, BridgeQuoteTtl,
                                  BridgeQuoteMaxSize)]
                ELSE cache
    /\ UNCHANGED <<ev, net, brk, calls, streak, req, task, orch>>

RiskNext ==
    \/ \E p \in RiskPairs, bridge_name \in {"", "stargate", "Hop"} : RiskCall(p, bridge_name)
    \/ \E what \in {"tick", "trip", "cached"} : RiskDisturb(what)

SpecRisk == RiskInit /\ [][RiskNext]_vars

IntOfTenths(x10) == IF x10 >= 0 THEN x10 \div 10 ELSE -((-x10) \div 10)

\* BRIDGE_TYPE_SCORES.get(bridge_type, 10)
BridgeTypeScore(bridge_type) ==
    CASE bridge_type = "Canonical" -> 25
      [] bridge_type = "Intent" -> 22
      [] bridge_type = "LayerZero" -> 20
      [] bridge_type = "Liquidity" -> 15
      [] OTHER -> 10

MatureChains == {"Ethereum", "Arbitrum", "Optimism", "Polygon"}

\* _calculate_tvl_score
TvlScore(tvl) ==
    IF tvl >= 1000 THEN 20
    ELSE IF tvl >= 500 THEN 16
    ELSE IF tvl >= 100 THEN 12
    ELSE IF tvl >= 50 THEN 8
    ELSE 4

\* _calculate_exploit_score
ExploitScore(has_exploits, total_lost) ==
    IF ~has_exploits THEN 20
    ELSE IF total_lost >= 100 THEN 0
    ELSE IF total_lost >= 10 THEN 5
    ELSE 10

\* _calculate_chain_score
ChainScore(source, target) ==
    IF source \in MatureChains /\ target \in MatureChains THEN 5
    ELSE IF source \in MatureChains \/ target \in MatureChains THEN 3
    ELSE 1

\* calculate_risk_score(...).overall_score: the plain sum of the six factors.
CalculateRiskScore(in) ==
    BridgeTypeScore(in.bridge_type) + Min(IntOfTenths(in.age10 * 4), 20)
      + TvlScore(in.tvl)
      + ExploitScore(in.has_exploits, in.exploit_total_lost)
      + (IF in.is_contract_verified THEN 10 ELSE 0)
      + ChainScore(in.source_chain, in.target_chain)

\* The arguments the signature admits: any string, any float, any bool.
ScoreInputs ==
    [bridge_type : {"Canonical", "Liquidity", "Unknown"},
     tvl : {0, 49, 50, 500, 1000, 5000},
     age10 : {-100, -40, -1, 0, 9, 25, 50, 1000},
     has_exploits : BOOLEAN,
     exploit_total_lost : {0, 10, 100, 600},
     is_contract_verified : BOOLEAN,
     source_chain : {"Ethereum", "Base"},
     target_chain : {"Arbitrum", "Avalanche"}]

ScoreInit ==
    /\ now = StartTime
    /\ PriceIdle
    /\ cb = <<>> /\ cache = <<>> /\ net = <<>>
    /\ ev \in [in : ScoreInputs, pc : {"call"}, overall_score : {None}]

ScoreCall ==
    /\ ev.pc = "call"
    /\ ev' = [ev EXCEPT !.pc = "done", !.overall_score = CalculateRiskScore(ev.in)]
    /\ UNCHANGED <<now, cb, cache, net, brk, calls, streak, req, task, orch>>

SpecScore == ScoreInit /\ [][ScoreCall]_vars

\* C15: for any factor inputs (any bridge type, TVL, age, exploit loss,
\* verification flag and chain pair) the overall_score that
\* calculate_risk_score returns lies in [0,100].
C15_ScoreWithinBounds ==
    ev.pc = "done" => (0 <= ev.overall_score /\ ev.overall_score <= 100)

(***************************************************************************)
(* SpecCosts: core.economics.costs.calculate_round_trip_costs on bounded   *)
(* inputs, in USD.                                                         *)
(***************************************************************************)
CalculateRoundTripCostsAlwaysSymmetric(in) ==
    RoundTripCosts(in.entry_bridge_fee, in.entry_source_gas, in.entry_dest_gas,
                   in.entry_bridge_fee, in.entry_dest_gas, in.entry_source_gas)

\* calculate_round_trip_costs: with symmetric (the default) the exit leg
\* mirrors the entry leg with the gas costs swapped, whatever exit values
\* are passed; without it the exit values passed are used, each defaulting
\* to its mirrored entry value when None.
CalculateRoundTripCosts(in) ==
    IF in.symmetric
    THEN RoundTripCosts(in.entry_bridge_fee, in.entry_source_gas, in.entry_dest_gas,
                        in.entry_bridge_fee, in.entry_dest_gas, in.entry_source_gas)
    ELSE RoundTripCosts(in.entry_bridge_fee, in.entry_source_gas, in.entry_dest_gas,
                        IF in.exit_bridge_fee # None
                        THEN in.exit_bridge_fee ELSE in.entry_bridge_fee,
                        IF in.exit_source_gas # None
                        THEN in.exit_source_gas ELSE in.entry_dest_gas,
                        IF in.exit_dest_gas # None
                        THEN in.exit_dest_gas ELSE in.entry_source_gas)

CostInputs ==
    [entry_bridge_fee : {0, 10}, entry_source_gas : {2, 5}, entry_dest_gas : {3},
     exit_bridge_fee : {None, 8, 10}, exit_source_gas : {None, 3},
     exit_dest_gas : {None, 2}, symmetric : BOOLEAN]

CostsInit ==
    /\ now = StartTime
    /\ PriceIdle
    /\ cb = <<>> /\ cache = <<>> /\ net = <<>>
    /\ ev \in [in : CostInputs, pc : {"call"}, costs : {None}]

CostsCall ==
    /\ ev.pc = "call"
    /\ ev' = [ev EXCEPT !.pc = "done", !.costs = CalculateRoundTripCosts(ev.in)]
    /\ UNCHANGED <<now, cb, cache, net, brk, calls, streak, req, task, orch>>

SpecCosts == CostsInit /\ [][CostsCall]_vars

\* The call returned and all three exit values were passed explicitly.
ExplicitExit ==
    /\ ev.pc = "done"
    /\ ev.in.exit_bridge_fee # None
    /\ ev.in.exit_source_gas # None
    /\ ev.in.exit_dest_gas # None

EntryAndTotalAddUp ==
    /\ ev.costs.entry.total
          = ev.in.entry_bridge_fee + ev.in.entry_source_gas + ev.in.entry_dest_gas
    /\ ev.costs.round_trip_total = ev.costs.entry.total + ev.costs.exit.total

ExitFromExplicitValues ==
    ev.costs.exit.total
      = ev.in.exit_bridge_fee + ev.in.exit_source_gas + ev.in.exit_dest_gas

TheExample ==
    [entry_bridge_fee |-> 10, entry_source_gas |-> 2, entry_dest_gas |-> 3,
     exit_bridge_fee |-> 8, exit_source_gas |-> 3, exit_dest_gas |-> 2]

IsTheExample == \A f \in DOMAIN TheExample : ev.in[f] = TheExample[f]

\* C16 as stated: for all explicit leg values entry_total is the sum of the
\* entry values, exit_total the sum of the explicit exit values (not
\* mirrored from entry) and round_trip_total their sum; (10,2,3,8,3,2)
\* gives 15, 13 and 28.
C16_ExplicitLegsAddUp ==
    ExplicitExit
      => /\ EntryAndTotalAddUp
         /\ ExitFromExplicitValues
         /\ IsTheExample => /\ ev.costs.entry.total = 15
                             /\ ev.costs.exit.total = 13
                             /\ ev.costs.round_trip_total = 28

\* C16, amended: entry_total and round_trip_total always add up; exit_total
\* is the sum of the explicit exit values when the call passes
\* symmetric=False (as analyze does), and then (10,2,3,8,3,2) gives 15, 13
\* and 28; with symmetric left at its default the explicit exit values are
\* ignored and the exit leg is the entry leg with the gas costs swapped.
C16_ExplicitLegsAddUpWhenNotSymmetric ==
    ev.pc = "done"
      => /\ EntryAndTotalAddUp
         /\ (ExplicitExit /\ ~ev.in.symmetric)
              => /\ ExitFromExplicitValues
                 /\ IsTheExample => /\ ev.costs.entry.total = 15
                                     /\ ev.costs.exit.total = 13
                                     /\ ev.costs.round_trip_total = 28
         /\ ev.in.symmetric
              => /\ ev.costs.exit.bridge_fee = ev.in.entry_bridge_fee
                 /\ ev.costs.exit.source_gas = ev.in.entry_dest_gas
                 /\ ev.costs.exit.dest_gas = ev.in.entry_source_gas
                 /\ ev.costs.exit.total = ev.costs.entry.total

C16_Witness ==
    /\ ExplicitExit /\ IsTheExample /\ ~ev.in.symmetric
    /\ ev.costs.entry.total = 15
    /\ ev.costs.exit.total = 13
    /\ ev.costs.round_trip_total = 28

(***************************************************************************)
(* SpecBreakeven: core.economics.breakeven.calculate_breakeven on bounded  *)
(* inputs.  total_cost and capital in USD, target_apy in percent; a float  *)
(* result is the exact fraction num/den, and float("inf") is Infinity.     *)
(***************************************************************************)
Infinity == [num |-> 1, den |-> 0]
Rat(n, d) == IF d < 0 THEN [num |-> -n, den |-> -d] ELSE [num |-> n, den |-> d]

\* round(n / d) for d > 0: ties go to the even integer.
RoundRat(n, d) ==
    LET q == n \div d
        r == n % d
    IN IF 2 * r < d THEN q
       ELSE IF 2 * r > d THEN q + 1
       ELSE IF q % 2 = 0 THEN q ELSE q + 1

\* daily_yield = capital * (target_apy / 100) / 365, as a multiple of 1/36500.
DailyYield(capital, target_apy) == capital * target_apy

BreakevenAlwaysDivides(total_cost, daily_yield) ==
    IF daily_yield = 0
    THEN [raised |-> "ZeroDivisionError", breakeven_days |-> Infinity,
          breakeven_hours |-> Infinity, has_breakeven |-> FALSE]
    ELSE [raised |-> "", breakeven_days |-> Rat(total_cost * 36500, daily_yield),
          breakeven_hours |-> Rat(total_cost * 36500 * 24, daily_yield),
          has_breakeven |-> TRUE]

\* Lines 58-72: the three branches.
Breakeven(total_cost, daily_yield) ==
    IF daily_yield > 0
    THEN [raised |-> "", breakeven_days |-> Rat(total_cost * 36500, daily_yield),
          breakeven_hours |-> Rat(total_cost * 36500 * 24, daily_yield),
          has_breakeven |-> TRUE]
    ELSE IF total_cost <= 0
    THEN [raised |-> "", breakeven_days |-> Rat(0, 1), breakeven_hours |-> Rat(0, 1),
          has_breakeven |-> TRUE]
    ELSE [raised |-> "", breakeven_days |-> Infinity, breakeven_hours |-> Infinity,
          has_breakeven |-> FALSE]

ChartTimeframeNotExtended(b, timeframe_days) == timeframe_days

\* Lines 76-79: max(timeframe_days, int(breakeven_days * 1.5)) when the
\* breakeven is finite.
ChartTimeframe(b, timeframe_days) ==
    IF b.has_breakeven /\ b.breakeven_days # Infinity
    THEN Max(timeframe_days,
             IntOfTenths((30 * b.breakeven_days.num) \div (2 * b.breakeven_days.den)))
    ELSE timeframe_days

\* _generate_chart_data: day and profit (in cents) of each point.
GenerateChartData(total_cost, daily_yield, timeframe_days, max_points) ==
    LET num_points == Min(timeframe_days + 1, max_points)
    IN [i \in 1..Max(num_points, 0) |->
          LET day == IF num_points > 1
                     THEN RoundRat((i - 1) * timeframe_days, num_points - 1)
                     ELSE i - 1
          IN [day |-> day,
              profit |-> RoundRat(100 * (day * daily_yield - total_cost * 36500), 36500)]]

\* calculate_breakeven(total_cost, capital, target_apy, timeframe_days,
\* max_chart_points)
CalculateBreakeven(in) ==
    LET b == Breakeven(in.total_cost, DailyYield(in.capital, in.target_apy))
    IN [raised |-> b.raised, breakeven_days |-> b.breakeven_days,
        breakeven_hours |-> b.breakeven_hours, has_breakeven |-> b.has_breakeven,
        chart_data |-> IF b.raised # "" THEN <<>>
                       ELSE GenerateChartData(in.total_cost,
                                              DailyYield(in.capital, in.target_apy),
                                              ChartTimeframe(b, in.timeframe_days),
                                              in.max_chart_points)]

BreakevenInit ==
    /\ now = StartTime
    /\ PriceIdle
    /\ cb = <<>> /\ cache = <<>> /\ net = <<>>
    /\ ev \in [in : [total_cost : {-10, 0, 50}, capital : {-1000, 0, 1000, 10000},
                     target_apy : {-5, 0, 5}, timeframe_days : {0, 3, 90},
                     max_chart_points : {1, 3, 100}],
               pc : {"call"}, out : {None}]

BreakevenCall ==
    /\ ev.pc = "call"
    /\ ev' = [ev EXCEPT !.pc = "done", !.out = CalculateBreakeven(ev.in)]
    /\ UNCHANGED <<now, cb, cache, net, brk, calls, streak, req, task, orch>>

SpecBreakeven == BreakevenInit /\ [][BreakevenCall]_vars

\* C17: for every capital and APY, a breakeven computation with
\* total_cost <= 0 reports breakeven_days = 0 and breakeven_hours = 0 with
\* has_breakeven true.
C17_NoCostBreaksEvenAtOnce ==
    (ev.pc = "done" /\ ev.in.total_cost <= 0)
      => /\ ev.out.has_breakeven
         /\ ev.out.breakeven_days.num = 0
         /\ ev.out.breakeven_hours.num = 0

\* C18: a breakeven computation whose daily yield is <= 0 with
\* total_cost > 0 raises nothing and returns has_breakeven = false, the
\* infinite sentinel as breakeven_days and breakeven_hours, and a chart of
\* at most max_chart_points points whose days lie within the timeframe.
C18_NoYieldNeverBreaksEven ==
    (ev.pc = "done" /\ DailyYield(ev.in.capital, ev.in.target_apy) <= 0
       /\ ev.in.total_cost > 0)
      => /\ ev.out.raised = ""
         /\ ~ev.out.has_breakeven
         /\ ev.out.breakeven_days = Infinity
         /\ ev.out.breakeven_hours = Infinity
         /\ Len(ev.out.chart_data) = Min(ev.in.timeframe_days + 1, ev.in.max_chart_points)
         /\ \A i \in DOMAIN ev.out.chart_data :
               /\ ev.out.chart_data[i].day \in 0..ev.in.timeframe_days
               /\ ev.out.chart_data[i].profit <= -100 * ev.in.total_cost

C18_Witness ==
    /\ ev.pc = "done"
    /\ ev.in.capital > 0 /\ ev.in.target_apy < 0 /\ ev.in.total_cost > 0
    /\ ev.out.breakeven_days = Infinity
    /\ Len(ev.out.chart_data) = 91
    /\ ev.out.chart_data[91].profit < -100 * ev.in.total_cost

\* C19: when the bridge-quote API rejects the entry quote request as
\* unprocessable (HTTP 400/422), on the first fetch and again on the retry,
\* analyze fails with InsufficientLiquidityError.
C19_UnprocessableSurfacesInsufficientLiquidity ==
    (Served /\ FirstFailed = {"eq"}
       /\ orch.first.eq = QuoteError("InsufficientLiquidityError")
       /\ task.eq.result = QuoteError("InsufficientLiquidityError"))
      => RaisedError("InsufficientLiquidityError")

\* C20: the provenance tag of a returned RouteCalculation tells a result
\* built from the fallback bridge quote from one built from a live quote: it
\* says "fallback" for the first, something else for the second, and "live"
\* only for a live quote.
C20_FallbackResultIsMarked ==
    Returned
      => /\ orch.bridge_quote.provider = "Fallback" => orch.result.tvl_source = "fallback"
         /\ orch.bridge_quote.provider # "Fallback" => orch.result.tvl_source # "fallback"
         /\ orch.result.tvl_source = "live" => orch.bridge_quote.provider = "Li.Fi"

(***************************************************************************)
(* More breaker properties, under SpecBreaker.                             *)
(***************************************************************************)
LaterTimes == now..MaxTime

\* C23: the circuit-state introspection reports the breaker's state and
\* failure count and is observationally read-only: it leaves the failure
\* counter and the last failure time alone; a call entered at any later time
\* is admitted after the probe exactly if it would have been without it,
\* also once a call in flight has settled in between, whatever its outcome;
\* and the probe reports open exactly when a call entered at that instant
\* would be rejected.
C23_ProbeIsReadOnly ==
    [][ev'.kind = "probe"
         => /\ ev'.report.fail_count = brk.fail_counter
            /\ brk'.fail_counter = brk.fail_counter
            /\ brk'.last_failure_time = brk.last_failure_time
            /\ \A t \in LaterTimes : CallAdmits(brk', t) = CallAdmits(brk, t)
            /\ \A t \in LaterTimes, o \in Outcomes :
                  CurrentState(Settle(brk', o, now), t) = CurrentState(Settle(brk, o, now), t)
            /\ (ev'.report.state = "open") = ~CallAdmits(brk, now)
       ]_vars

C23_Witness ==
    /\ ev.kind = "probe"
    /\ ev.before = "open"
    /\ ev.report.state = "half_open"
    /\ brk.state = "half_open"
    /\ ev.report.fail_count >= brk.fail_max
    /\ \E c \in Callers : calls[c] = "inflight"

\* C24: a call entered on a breaker that is not open starts the operation
\* once (the caller goes from idle to in flight, and only a settlement ends
\* that), and when the operation ends the call hands on the operation's own
\* outcome, its result or its error, excluded or not, unchanged.
C24_OutcomePropagatedUnchanged ==
    [][ /\ (EnteredCall /\ CallAdmits(brk, now))
              => /\ ev'.kind = "admitted"
                 /\ calls[ev'.caller] = "idle" /\ calls'[ev'.caller] = "inflight"
                 /\ \A c \in Callers \ {ev'.caller} : calls'[c] = calls[c]
        /\ (\E c \in Callers : calls[c] = "inflight" /\ calls'[c] = "idle")
              => /\ ev'.kind = "settled"
                 /\ calls[ev'.caller] = "inflight"
                 /\ ev'.outcome = ev'.op
                 /\ \A c \in Callers \ {ev'.caller} : calls'[c] = calls[c]
        /\ ev'.kind = "settled" => ev'.outcome = ev'.op
      ]_vars

C24_Witness ==
    /\ ev.kind = "settled"
    /\ ev.before = "half_open"
    /\ ev.op = "HTTPStatusError"
    /\ ev.outcome = "HTTPStatusError"
    /\ brk.state = "open"

\* C26: while a breaker is half_open at most one trial call is admitted: a
\* caller entering right after the trial call was admitted, before it has
\* settled, is rejected.
C26_OneTrialInHalfOpen ==
    [][(ev.kind = "admitted" /\ brk.state = "half_open"
          /\ calls[ev.caller] = "inflight"
          /\ EnteredCall /\ ev'.caller # ev.caller)
         => ev'.kind = "rejected"]_vars

\* C27: once a breaker is open, no step closes it or lowers its failure
\* counter before reset_timeout has elapsed since the last failure, and it
\* leaves open only for half_open; calls admitted before it opened and
\* settling afterwards included.
C27_OpenUntilTimeout ==
    [][brk.state = "open"
         => /\ brk'.state \in {"open", "half_open"}
            /\ SinceLastFailure < brk.reset_timeout
                 => (brk'.state = "open" /\ brk'.fail_counter >= brk.fail_counter)
       ]_vars

\* C28: in every reachable state of a breaker with fail_max >= 1, whatever
\* the interleaving of concurrent calls, closed implies a failure counter
\* below fail_max, and open or half_open implies a counter of at least
\* fail_max and a recorded last failure time.
C28_StateMatchesCounter ==
    /\ brk.fail_max >= 1
    /\ brk.state \in {"closed", "open", "half_open"}
    /\ brk.state = "closed" => brk.fail_counter < brk.fail_max
    /\ brk.state \in {"open", "half_open"}
         => /\ brk.fail_counter >= brk.fail_max
            /\ brk.last_failure_time # None
            /\ brk.last_failure_time \in StartTime..now

C28_Witness ==
    /\ brk.state = "half_open"
    /\ brk.fail_counter > brk.fail_max
    /\ brk.fail_max = MaxFailMax
    /\ \E c \in Callers : calls[c] = "inflight"

\* C29: a call that fails with an excluded error kind leaves the breaker's
\* state, failure counter and last failure time as they were, in every
\* state; an excluded failure of the trial call leaves a half_open breaker
\* half_open.
C29_ExcludedFailureChangesNothing ==
    [][(ev'.kind = "settled" /\ ev'.op \in ExcludedFailures)
         => /\ brk'.state = brk.state
            /\ brk'.fail_counter = brk.fail_counter
            /\ brk'.last_failure_time = brk.last_failure_time
            /\ brk' = brk
       ]_vars

C29_Witness ==
    /\ ev.kind = "settled"
    /\ ev.op = "RateLimitError"
    /\ IsExcluded(brk, "RateLimitError")
    /\ ev.before = "half_open"
    /\ brk.state = "half_open"
    /\ brk.fail_counter >= brk.fail_max

\* The keys a cache stores, and the write just made: of a new key into a
\* cache that is at capacity with no expired entry.
StoredKeys(c) == {c[i].key : i \in DOMAIN c}
SetOnFullCache ==
    /\ net'.op = "set" /\ net'.sets = net.sets + 1
    /\ Len(cache) = MaxCacheSize
    /\ \A i \in DOMAIN cache : now < cache[i].expires
    /\ net'.key \notin StoredKeys(cache)
Rank(order, k) == CHOOSE i \in DOMAIN order : order[i] = k
LeastRecentlyInserted ==
    {k \in StoredKeys(cache) :
        \A j \in StoredKeys(cache) : Rank(ev.inserted, k) <= Rank(ev.inserted, j)}
LeastRecentlyUsed ==
    {k \in StoredKeys(cache) :
        \A j \in StoredKeys(cache) : Rank(ev.used, k) <= Rank(ev.used, j)}

\* C25 as stated: no cache holds more entries than its capacity, and a set
\* on a cache at capacity with no expired entry evicts exactly the
\* least-recently-inserted entry, whatever was read in between.
C25_EvictsLeastRecentlyInserted ==
    /\ [](Len(cache) <= MaxCacheSize)
    /\ [][SetOnFullCache
            => StoredKeys(cache') = (StoredKeys(cache) \ LeastRecentlyInserted)
                                      \cup {net'.key}]_vars

\* What the cache does instead: the write evicts exactly one entry, the least
\* recently used one, whose last write or read hit is the oldest.
CacheEvictsLeastRecentlyUsed ==
    [][SetOnFullCache
        => /\ Cardinality(LeastRecentlyUsed) = 1
           /\ StoredKeys(cache') = (StoredKeys(cache) \ LeastRecentlyUsed)
                                     \cup {net'.key}
           /\ Len(cache') = MaxCacheSize]_vars

(***************************************************************************)
(* The fetchers one by one: cache first, then the upstream through the     *)
(* breaker.  A behaviour exercises the fetchers of one dependency (req);   *)
(* the dependencies share no breaker and no cache.                         *)
(***************************************************************************)
MaxFetchClock == 31
FetchTickDelta == 10
GasPriceTtl == 30
GasPriceMaxSize == 20
LiveGasPrice == 300     \* 30.0 gwei

GasPriceOutcomes == {"ok", "ValueError", "TimeoutError"}

GetGasPriceBreakerFirst(sh, chain, up, t) ==
    LET key == <<"gas", chain>>
        sh0 == Touch(sh, {"gas_price_cache"})
        r == ThroughBreaker(sh0, "rpc", up, t)
    IN IF r.outcome = "CircuitBreakerError"
       THEN [sh |-> r.sh, value |-> DefaultBaseFee, src |-> "default"]
       ELSE IF CacheHas(sh.cache.gas_price, key, t)
       THEN [sh |-> [sh0 EXCEPT !.cache.gas_price = CacheUse(@, key)],
             value |-> CacheGet(sh.cache.gas_price, key), src |-> "cached"]
       ELSE IF r.outcome = "ok"
       THEN [sh |-> [r.sh EXCEPT !.cache.gas_price =
                                    CachePut(@, key, LiveGasPrice, t, GasPriceTtl,
                                             GasPriceMaxSize)],
             value |-> LiveGasPrice, src |-> "live"]
       ELSE [sh |-> r.sh, value |-> QuoteError("ExternalAPIError"), src |-> "error"]

\* GasService.get_gas_price(chain): an open breaker gives the default gas
\* price, any other failure raises ExternalAPIError.
GetGasPrice(sh, chain, up, t) ==
    LET key == <<"gas", chain>>
        sh0 == Touch(sh, {"gas_price_cache"})
        r == ThroughBreaker(sh0, "rpc", up, t)
    IN IF CacheHas(sh.cache.gas_price, key, t)
       THEN [sh |-> [sh0 EXCEPT !.cache.gas_price = CacheUse(@, key)],
             value |-> CacheGet(sh.cache.gas_price, key), src |-> "cached"]
       ELSE IF r.outcome = "ok"
       THEN [sh |-> [r.sh EXCEPT !.cache.gas_price =
                                    CachePut(@, key, LiveGasPrice, t, GasPriceTtl,
                                             GasPriceMaxSize)],
             value |-> LiveGasPrice, src |-> "live"]
       ELSE IF r.outcome = "CircuitBreakerError"
       THEN [sh |-> r.sh, value |-> DefaultBaseFee, src |-> "default"]
       ELSE [sh |-> r.sh, value |-> QuoteError("ExternalAPIError"), src |-> "error"]

NoFetch ==
    [pc |-> "idle", fetcher |-> "none", breaker |-> "none", cache |-> "none", key |-> <<>>,
     hit |-> FALSE, src |-> "none", value |-> 0, chain |-> "-", attempt |-> 0, flip |-> FALSE,
     up |-> "none"]

\* One breaker tripped at the start or one failure from tripping, the caches
\* empty.
FetchInit ==
    /\ now = StartTime
    /\ brk = <<>> /\ calls = <<>> /\ streak = 0 /\ task = <<>> /\ orch = <<>>
    /\ req \in {"rpc", "coingecko", "lifi"}
    /\ \E b \in {NewBreaker(1, 1, {}), Tripped(NewBreaker(1, 1, {}), StartTime)} :
          cb = [rpc |-> IF b.state = "open" THEN Tripped(RpcBreaker, StartTime)
                        ELSE [RpcBreaker EXCEPT !.fail_counter = RpcFailMax - 1,
                                                !.last_failure_time = StartTime],
                lifi |-> IF b.state = "open" THEN Tripped(LifiBreaker, StartTime)
                         ELSE [LifiBreaker EXCEPT !.fail_counter = LifiFailMax - 1,
                                                  !.last_failure_time = StartTime],
                coingecko |-> IF b.state = "open" THEN Tripped(CoingeckoBreaker, StartTime)
                              ELSE [CoingeckoBreaker EXCEPT
                                        !.fail_counter = CoingeckoFailMax - 1,
                                        !.last_failure_time = StartTime]]
    /\ cache = [gas_price |-> EmptyCache, fee_history |-> EmptyCache,
                native_price |-> EmptyCache, bridge_quote |-> EmptyCache]
    /\ net = {}
    /\ ev = NoFetch

FetchFrame == UNCHANGED <<now, req, brk, calls, streak, task, orch>>

\* get_gas_price(chain), the RPC answering `up` if it is asked.
FetchGas(chain, up) ==
    /\ req = "rpc" /\ ev.pc = "idle"
    /\ \E r \in {GetGasPrice([Shared EXCEPT !.net = {}], chain, up, now)} :
          /\ Publish(r.sh)
          /\ ev' = [NoFetch EXCEPT !.fetcher = "gas_price", !.breaker = "rpc",
                                   !.cache = "gas_price", !.key = <<"gas", chain>>,
                                   !.hit = CacheHas(cache.gas_price, <<"gas", chain>>, now),
                                   !.src = r.src, !.value = r.value, !.flip = ~ev.flip,
                                   !.up = up]
    /\ FetchFrame

\* _fetch_fee_history(chain)
FetchFee(chain, up) ==
    /\ req = "rpc" /\ ev.pc = "idle"
    /\ \E r \in {FetchFeeHistory([Shared EXCEPT !.net = {}], chain, up, now)} :
          /\ Publish(r.sh)
          /\ ev' = [NoFetch EXCEPT !.fetcher = "fee_history", !.breaker = "rpc",
                                   !.cache = "fee_history", !.key = <<"fee_history", chain>>,
                                   !.hit = CacheHas(cache.fee_history,
                                                    <<"fee_history", chain>>, now),
                                   !.src = r.src, !.value = r.value, !.flip = ~ev.flip,
                                   !.up = up]
    /\ FetchFrame

\* _get_native_token_price(chain): the cache read and the first pass of the
\* loop, or a later pass after the sleep.
FetchPrice(chain, up) ==
    /\ req = "coingecko"
    /\ ev.pc = "idle" \/ (ev.pc = "retry" /\ chain = ev.chain)
    /\ \E r \in {PriceAttempt([Shared EXCEPT !.net = {}], chain, ev.attempt, up, now)} :
          /\ Publish(r.sh)
          /\ ev' = [NoFetch EXCEPT !.fetcher = "native_price", !.breaker = "coingecko",
                                   !.cache = "native_price",
                                   !.key = <<"price", NativeTokenId(chain)>>,
                                   !.hit = ev.attempt = 0
                                           /\ CacheHas(cache.native_price,
                                                       <<"price", NativeTokenId(chain)>>, now),
                                   !.src = r.src, !.value = r.value, !.flip = ~ev.flip,
                                   !.up = up,
                                   !.pc = IF r.again THEN "sleep" ELSE "idle",
                                   !.chain = IF r.again THEN chain ELSE "-",
                                   !.attempt = IF r.again THEN ev.attempt + 1 ELSE 0]
    /\ FetchFrame

\* asyncio.sleep between two passes of the price loop, in whole seconds.
FetchSleep ==
    /\ ev.pc = "sleep"
    /\ \E jitter \in {0, 1} :
          /\ now + BaseDelay * 2 ^ (ev.attempt - 1) + jitter <= MaxFetchClock
          /\ now' = now + BaseDelay * 2 ^ (ev.attempt - 1) + jitter
    /\ ev' = [ev EXCEPT !.pc = "retry"]
    /\ UNCHANGED <<cb, cache, net, req, brk, calls, streak, task, orch>>

\* get_bridge_quote_v2(source, dest, amount_usd, wallet_address)
FetchQuote(source, dest, up) ==
    /\ req = "lifi" /\ ev.pc = "idle"
    /\ \E r \in {GetBridgeQuote([Shared EXCEPT !.net = {}], source, dest, 1000,
                                LiveWallet, up, now)} :
          /\ Publish(r.sh)
          /\ ev' = [NoFetch EXCEPT
                      !.fetcher = "bridge_quote", !.breaker = "lifi",
                      !.cache = "bridge_quote", !.key = <<"bridge", source, dest, 1000>>,
                      !.hit = source # dest
                              /\ CacheHas(cache.bridge_quote,
                                          <<"bridge", source, dest, 1000>>, now),
                      !.src = IF "bridge_quote_cache" \notin r.sh.net THEN "local"
                              ELSE IF "lifi_breaker" \notin r.sh.net THEN "cached"
                              ELSE IF r.value.kind = "ok" THEN "live" ELSE "error",
                      !.value = r.value, !.flip = ~ev.flip, !.up = up.kind]
    /\ FetchFrame

\* Time passes between two fetches.
FetchTick ==
    /\ ev.pc = "idle"
    /\ now + FetchTickDelta <= MaxFetchClock
    /\ now' = now + FetchTickDelta
    /\ UNCHANGED <<ev, cb, cache, net, req, brk, calls, streak, task, orch>>

FetchNext ==
    \/ \E chain \in {"Ethereum"}, up \in GasPriceOutcomes : FetchGas(chain, up)
    \/ \E chain \in {"Ethereum"}, up \in FeeHistoryOutcomes \cup {"no_result"} :
          FetchFee(chain, up)
    \/ \E chain \in {"Ethereum", "Polygon"}, up \in PriceOutcomes \cup {"HTTPStatusError"} :
          FetchPrice(chain, up)
    \/ FetchSleep
    \/ \E source \in {"Ethereum", "Arbitrum"}, dest \in {"Ethereum", "Arbitrum"} :
          \E up \in QuoteOutcomes(100000) : FetchQuote(source, dest, up)
    \/ FetchTick

SpecFetch == FetchInit /\ [][FetchNext]_vars

FetchRan == ev'.flip # ev.flip

\* C30: a fetcher that finds an unexpired cache entry returns it, asks
\* neither its breaker nor the upstream and leaves every breaker as it was,
\* also while its breaker is open; on a miss the upstream is asked only
\* through the breaker (never while it is open), and a value obtained from
\* the upstream is in the cache, under the fetcher's key, when it is returned.
C30_CacheBeforeBreaker ==
    [][FetchRan =>
        /\ ev'.hit =>
              /\ ev'.value = CacheGet(cache[ev'.cache], ev'.key)
              /\ cb' = cb
              /\ net' = {ev'.cache \o "_cache"}
              /\ StoredKeys(cache'[ev'.cache]) = StoredKeys(cache[ev'.cache])
        /\ ~ev'.hit =>
              /\ (ev'.breaker \o "_upstream") \in net'
                    => /\ (ev'.breaker \o "_breaker") \in net'
                       /\ CurrentState(cb[ev'.breaker], now).state # "open"
              /\ ev'.src = "live"
                    => /\ (ev'.breaker \o "_upstream") \in net'
                       /\ CacheHas(cache'[ev'.cache], ev'.key, now)
                       /\ CacheGet(cache'[ev'.cache], ev'.key) = ev'.value
      ]_vars

C30_Witness ==
    /\ ev.fetcher = "gas_price"
    /\ ev.hit
    /\ cb.rpc.state = "open"
    /\ ~CallAdmits(cb.rpc, now)
    /\ ev.value = LiveGasPrice

(***************************************************************************)
(* SentinelService.run_preflight_checks.  Amounts are in USD, gas prices   *)
(* in tenths of a gwei; None is an argument of the wrong type, on which    *)
(* the arithmetic of a check raises TypeError.                             *)
(***************************************************************************)
LiquidityDepthWarnPct == 5
LiquidityDepthFailPct == 10
ConcentrationWarnPct == 5
ConcentrationFailPct == 10
ProtocolRiskWarnThreshold == 70
ProtocolRiskFailThreshold == 50
GasAnomalyThreshold == 2

RiskCheck(name, status, severity) == [name |-> name, status |-> status, severity |-> severity]
CheckRaised == RiskCheck("<exception>", "raised", 0)

\* Chain.from_string (of a value without surrounding blanks)
ChainFromString(value) ==
    LET hits == {c \in ChainValues : Lower(Codes(c)) = Lower(Codes(value))}
    IN IF Lower(Codes(value)) = Codes("bsc") THEN "BNB Chain"
       ELSE IF hits # {} THEN CHOOSE c \in hits : TRUE
       ELSE NoChain

CheckLiquidityDepth(migration_amount, pool_tvl) ==
    IF pool_tvl = None THEN CheckRaised
    ELSE IF pool_tvl <= 0 THEN RiskCheck("Liquidity Depth", "warn", 3)
    ELSE IF migration_amount = None THEN CheckRaised
    ELSE IF migration_amount * 100 >= LiquidityDepthFailPct * pool_tvl
    THEN RiskCheck("Liquidity Depth", "fail", 5)
    ELSE IF migration_amount * 100 >= LiquidityDepthWarnPct * pool_tvl
    THEN RiskCheck("Liquidity Depth", "warn", 3)
    ELSE RiskCheck("Liquidity Depth", "pass", 1)

CheckProtocolRisk(risk_score) ==
    IF risk_score = None THEN CheckRaised
    ELSE IF risk_score < ProtocolRiskFailThreshold THEN RiskCheck("Protocol Safety", "fail", 5)
    ELSE IF risk_score < ProtocolRiskWarnThreshold THEN RiskCheck("Protocol Safety", "warn", 3)
    ELSE RiskCheck("Protocol Safety", "pass", 1)

CheckConcentrationRisk(migration_amount, pool_tvl) ==
    IF pool_tvl = None THEN CheckRaised
    ELSE IF pool_tvl <= 0 THEN RiskCheck("Concentration Risk", "warn", 2)
    ELSE IF migration_amount = None THEN CheckRaised
    ELSE IF migration_amount * 100 >= ConcentrationFailPct * pool_tvl
    THEN RiskCheck("Concentration Risk", "fail", 4)
    ELSE IF migration_amount * 100 >= ConcentrationWarnPct * pool_tvl
    THEN RiskCheck("Concentration Risk", "warn", 3)
    ELSE RiskCheck("Concentration Risk", "pass", 1)

\* normal_gas, in hundredths of a gwei
NormalGas(chain) ==
    CASE chain \in {"Ethereum", "Avalanche"} -> 3000
      [] chain = "Arbitrum" -> 10
      [] chain \in {"Base", "Optimism"} -> 1
      [] chain = "Polygon" -> 5000
      [] chain = "BNB Chain" -> 500
      [] OTHER -> 3000

GasCheckRaises(sh, chain, up, t) ==
    LET chain_enum == ChainFromString(chain)
        r == GetGasPrice(sh, chain_enum, up, t)
    IN IF chain_enum = NoChain
       THEN [sh |-> sh, src |-> "none", check |-> CheckRaised]
       ELSE IF r.src = "error"
       THEN [sh |-> r.sh, src |-> r.src, check |-> CheckRaised]
       ELSE IF r.value * 10 > NormalGas(chain_enum) * GasAnomalyThreshold
       THEN [sh |-> r.sh, src |-> r.src, check |-> RiskCheck("Gas Conditions", "warn", 2)]
       ELSE [sh |-> r.sh, src |-> r.src, check |-> RiskCheck("Gas Conditions", "pass", 1)]

\* _check_gas_conditions(chain): every exception becomes a warning.
CheckGasConditions(sh, chain, up, t) ==
    LET chain_enum == ChainFromString(chain)
        r == GetGasPrice(sh, chain_enum, up, t)
    IN IF chain_enum = NoChain
       THEN [sh |-> sh, src |-> "none", check |-> RiskCheck("Gas Conditions", "warn", 2)]
       ELSE IF r.src = "error"
       THEN [sh |-> r.sh, src |-> r.src, check |-> RiskCheck("Gas Conditions", "warn", 2)]
       ELSE IF r.value * 10 > NormalGas(chain_enum) * GasAnomalyThreshold
       THEN [sh |-> r.sh, src |-> r.src, check |-> RiskCheck("Gas Conditions", "warn", 2)]
       ELSE [sh |-> r.sh, src |-> r.src, check |-> RiskCheck("Gas Conditions", "pass", 1)]

\* Lines 80-93: what gather returned for one coroutine, as a result entry.
Collect(check) ==
    IF check = CheckRaised THEN RiskCheck("Check Error", "warn", 2) ELSE check

MaxPreflightCalls == 2
PreflightAmounts == {None, 10, 60, 200}
PreflightTvls == {None, 0, 1000}
PreflightScores == {None, 40, 60, 80}
PreflightChains == {"Ethereum", "arbitrum", "Mars"}

NoPreflight == [n |-> 0, raw |-> <<>>, results |-> <<>>, gas_src |-> "none"]

PreflightInit ==
    /\ now = StartTime
    /\ brk = <<>> /\ calls = <<>> /\ streak = 0 /\ task = <<>> /\ orch = <<>>
    /\ req = <<>>
    /\ \E r \in {RpcBreaker, Tripped(RpcBreaker, StartTime)} :
          cb = [rpc |-> r, lifi |-> LifiBreaker, coingecko |-> CoingeckoBreaker]
    /\ cache = [gas_price |-> EmptyCache, fee_history |-> EmptyCache,
                native_price |-> EmptyCache, bridge_quote |-> EmptyCache]
    /\ net = {}
    /\ ev = NoPreflight

\* run_preflight_checks(migration_amount, target_pool_tvl, target_chain,
\* protocol_name, risk_score): the four coroutines run to their end and the
\* list is built from what gather collected.
RunPreflightChecks(migration_amount, target_pool_tvl, target_chain, risk_score, up) ==
    /\ ev.n < MaxPreflightCalls
    /\ \E g \in {CheckGasConditions([Shared EXCEPT !.net = {}], target_chain, up, now)} :
          /\ Publish(g.sh)
          /\ \E raw \in {<<CheckLiquidityDepth(migration_amount, target_pool_tvl),
                           CheckProtocolRisk(risk_score),
                           CheckConcentrationRisk(migration_amount, target_pool_tvl),
                           g.check>>} :
                ev' = [n |-> ev.n + 1, raw |-> raw, gas_src |-> g.src,
                       results |-> [i \in 1..4 |-> Collect(raw[i])]]
    /\ UNCHANGED <<now, req, brk, calls, streak, task, orch>>

PreflightTick ==
    /\ now + RpcResetTimeout <= MaxFetchClock
    /\ now' = now + RpcResetTimeout
    /\ UNCHANGED <<ev, cb, cache, net, req, brk, calls, streak, task, orch>>

PreflightNext ==
    \/ \E a \in PreflightAmounts, tvl \in PreflightTvls, c \in PreflightChains :
          \E s \in PreflightScores, up \in GasPriceOutcomes : RunPreflightChecks(a, tvl, c, s, up)
    \/ PreflightTick

SpecPreflight == PreflightInit /\ [][PreflightNext]_vars

PreflightNames == <<"Liquidity Depth", "Protocol Safety", "Concentration Risk", "Gas Conditions">>

\* C21: preflight always returns four entries, in the order liquidity depth,
\* protocol safety, concentration, gas conditions, each with a status among
\* pass, warn, fail and a severity from 1 to 5; the entry of a check that
\* raised is a warning in that check's position, a gas check whose chain is
\* unknown or whose fetch failed is the gas-conditions warning, and no call
\* ends without its list.
C21_PreflightFourEntries ==
    ev # NoPreflight =>
        /\ Len(ev.results) = 4
        /\ \A i \in 1..4 :
              /\ ev.results[i].status \in {"pass", "warn", "fail"}
              /\ ev.results[i].severity \in 1..5
              /\ ev.results[i].name \in {PreflightNames[i], "Check Error"}
              /\ ev.raw[i] = CheckRaised => ev.results[i].status = "warn"
              /\ ev.raw[i] # CheckRaised => ev.results[i].name = PreflightNames[i]
        /\ ev.gas_src \in {"none", "error"}
              => ev.results[4] = RiskCheck("Gas Conditions", "warn", 2)

C21_Witness ==
    /\ ev # NoPreflight
    /\ ev.raw[2] = CheckRaised
    /\ ev.results[1].status = "fail"
    /\ ev.results[2] = RiskCheck("Check Error", "warn", 2)
    /\ ev.gas_src = "error"
    /\ ev.results[4].status = "warn"

(***************************************************************************)
(* The /analyze endpoint: the response status for what analyze_route       *)
(* returned or raised.  An exception class is its defining module and its  *)
(* name; services.py and exceptions.py each define their own hierarchy.    *)
(***************************************************************************)
\* The classes `name` inherits from inside its module, itself included.
ClassAncestors(name) ==
    CASE name = "InsufficientLiquidityError"
            -> {"InsufficientLiquidityError", "BridgeRouteError", "AnalysisError", "Exception"}
      [] name = "BridgeRouteError" -> {"BridgeRouteError", "AnalysisError", "Exception"}
      [] name = "ExternalAPIError" -> {"ExternalAPIError", "AnalysisError", "Exception"}
      [] OTHER -> {name, "Exception"}

\* The class of an exception that AggregatorService.analyze_route raises:
\* ValueError is the builtin, the others are the classes of services.py.
ServiceException(name) ==
    [module |-> IF name = "ValueError" THEN "builtins" ELSE "api.services", name |-> name]

\* isinstance(e, module.name)
IsInstance(e, module, name) ==
    /\ name \in ClassAncestors(e.name)
    /\ name = "Exception" \/ e.module = module

\* main.py lines 239-258: the except clauses, in order; the three error
\* classes are the ones imported from api.exceptions.
AnalyzeResponseStatus(result) ==
    IF result.kind # "error" THEN 200
    ELSE LET e == ServiceException(result.error)
         IN IF IsInstance(e, "builtins", "ValueError") THEN 400
            ELSE IF IsInstance(e, "api.exceptions", "ExternalAPIError") THEN 503
            ELSE IF IsInstance(e, "api.exceptions", "InsufficientLiquidityError") THEN 422
            ELSE IF IsInstance(e, "api.exceptions", "BridgeRouteError") THEN 400
            ELSE 500

\* C22 as stated: when analyze_route fails, the kind of the failure gives the
\* /analyze status: ExternalAPIError 503, InsufficientLiquidityError 422,
\* another BridgeRouteError 400, and none of them a generic 500.
C22_TypedFailureStatus ==
    (orch.pc = "done" /\ orch.result.kind = "error" /\ orch.result.error # "ValueError")
        => /\ AnalyzeResponseStatus(orch.result) # 500
           /\ orch.result.error = "ExternalAPIError"
                 => AnalyzeResponseStatus(orch.result) = 503
           /\ orch.result.error = "InsufficientLiquidityError"
                 => AnalyzeResponseStatus(orch.result) = 422
           /\ orch.result.error = "BridgeRouteError"
                 => AnalyzeResponseStatus(orch.result) = 400

\* The fetch just made missed the cache and then either was rejected by
\* the open breaker or had an upstream answer that is not a result.
FetchFailed ==
    /\ FetchRan /\ ~ev'.hit
    /\ (ev'.breaker \o "_breaker") \in net'
    /\ \/ (ev'.breaker \o "_upstream") \notin net'
       \/ ev'.up \notin {"ok", "live", "malformed"}

\* C31 as stated: a fetch that fails or is rejected by the open breaker
\* leaves every cache unchanged, so no substitute value (default gas price,
\* fallback price, empty fee history) is stored and later served as a hit.
C31_FailedFetchLeavesCaches ==
    [][FetchFailed => cache' = cache]_vars

\* C32: the price fetcher goes round its loop again only after a rate-limit
\* answer of the API; a pass that ends in any other failure, or that the
\* open breaker rejects, ends the call with the fallback price, and a call
\* that has ended asks the API no more.
C32_RetryOnlyAfterRateLimit ==
    [][/\ (ev.pc = "loop" /\ ev' # ev) =>
              /\ ev'.pc = "sleep" => PassRateLimited
              /\ (~PassRateLimited /\ ev'.src \notin {"live", "cached"})
                    => /\ ev'.pc = "done"
                       /\ ev'.src = "fallback"
                       /\ ev'.value = FallbackPrice(NativeTokenId(ev.chain))
       /\ (ev.pc = "done" /\ ev'.n = ev.n) => ev'.upstream = ev.upstream
      ]_vars

C32_Witness ==
    /\ ev.pc = "done"
    /\ ev.src = "fallback"
    /\ ev.attempt = 1
    /\ ev.limited = 1
    /\ ev.upstream = 2

\* analyze_route under the event loop: a coroutine that can take a step
\* takes it, and every network call settles.
\* One cross-chain request, started while the Li.Fi breaker is open.
AnalyzeLiveInit ==
    /\ AnalyzeInit
    /\ req.current_chain = "Arbitrum" /\ req.target_chain = "ethereum"
    /\ cb.rpc = RpcBreaker /\ cb.lifi # LifiBreaker

SpecAnalyzeLive == AnalyzeLiveInit /\ [][AnalyzeNext]_vars /\ WF_vars(AnalyzeNext)

TargetSpellings ==
    ChainValues \cup ChainMapKeys \cup {"BSC", "Bsc", "ETHEREUM", "Mars"}

StartInit ==
    /\ now = StartTime
    /\ BreakerIdle
    /\ cb = [rpc |-> RpcBreaker, lifi |-> LifiBreaker, coingecko |-> CoingeckoBreaker]
    /\ cache = [fee_history |-> EmptyCache, native_price |-> EmptyCache,
                bridge_quote |-> EmptyCache]
    /\ req \in [current_chain : ChainValues, target_chain : TargetSpellings,
                capital : RequestCapitals, wallet_address : RequestWallets]
    /\ task = NoTasks
    /\ orch = [pc |-> "start", target_enum |-> NoChain, first |-> <<>>,
               bridge_quote |-> NoResult, result |-> NoResult]
    /\ net = {}

SpecStart == StartInit /\ [][AnalyzeStart]_vars

\* The chains whose name is the target string up to the case of its letters.
ChainsSpelled(target) == {c \in ChainValues : Lower(Codes(c)) = Lower(Codes(target))}

\* C34: analyze takes the target string for the chain whose name it spells
\* in any case, and "bsc" in any case for BNB Chain; for any other string it
\* fails with ValueError with no coroutine created and nothing fetched.
C34_TargetNormalized ==
    [][(orch.pc = "start" /\ orch'.pc # "start") =>
        IF ChainsSpelled(req.target_chain) # {}
        THEN orch'.pc = "gather" /\ orch'.target_enum \in ChainsSpelled(req.target_chain)
        ELSE IF Lower(Codes(req.target_chain)) = Codes("bsc")
        THEN orch'.pc = "gather" /\ orch'.target_enum = "BNB Chain"
        ELSE /\ orch'.pc = "done"
             /\ orch'.result = [kind |-> "error", error |-> "ValueError"]
             /\ task' = NoTasks
             /\ net' = {} /\ cb' = cb /\ cache' = cache
      ]_vars

C34_Witness ==
    /\ req.target_chain = "Bsc"
    /\ orch.pc = "gather"
    /\ orch.target_enum = "BNB Chain"
    /\ task.dg.chain = "BNB Chain"

\* C35 as stated: the risk assessment in analyze's result is the one of the
\* canonical chain pair and the quoted bridge name, so the spelling of the
\* target string (its case, an alias) does not show in it.
C35_RiskIgnoresSpelling ==
    (orch.pc = "done" /\ orch.result.kind = "RouteCalculation")
        => \E canon \in {GetBridgeRisk(req.current_chain, orch.target_enum,
                                       orch.bridge_quote.bridge_name)} :
              /\ (orch.result.risk_score = 100) = (canon.risk_score = 100)
              /\ orch.result.risk_level = ScoreToRiskLevel(canon.risk_score)
              /\ orch.result.has_exploits = canon.has_exploits
              /\ orch.result.bridge_metadata = canon.bridge_metadata

\* The profiles whose name, in lower case, contains the lower-cased bridge
\* name or is contained in it.
ProfilesNamed(name) ==
    {i \in DOMAIN BridgeOptions :
        \/ Contains(Lower(Codes(name)), Lower(Codes(BridgeOptions[i].name)))
        \/ Contains(Lower(Codes(BridgeOptions[i].name)), Lower(Codes(name)))}

\* The profile at index (route hash) modulo the length of the filtered list.
HashSelected(source, target) ==
    IF source = "Ethereum" \/ target = "Ethereum"
    THEN L1Options[(RouteHash(source, target) % Len(L1Options)) + 1]
    ELSE L2Options[(RouteHash(source, target) % Len(L2Options)) + 1]

\* C36: the risk assessment of a route calculation uses the entry quote's
\* bridge name (the fallback quote's when the entry quote was replaced): the
\* first profile that name matches, and the hash-selected profile only when
\* it matches none.
C36_RiskFromEntryQuoteName ==
    (orch.pc = "done" /\ orch.result.kind = "RouteCalculation"
        /\ ~SameChainByValue(req.current_chain, req.target_chain))
    => \E named \in {ProfilesNamed(orch.bridge_quote.bridge_name)} :
          /\ orch.bridge_quote = IF Failed(task.eq.result) THEN FallbackQuote(req.capital)
                                 ELSE task.eq.result
          /\ named # {}
                => orch.result.bridge_metadata
                     = BridgeOptions[CHOOSE i \in named : \A j \in named : i <= j]
          /\ named = {}
                => orch.result.bridge_metadata
                     = HashSelected(req.current_chain, req.target_chain)

C36_Witness ==
    /\ orch.pc = "done"
    /\ orch.result.kind = "RouteCalculation"
    /\ orch.bridge_quote.bridge_name = "stargate"
    /\ orch.result.bridge_metadata.name = "Stargate"
    /\ HashSelected(req.current_chain, req.target_chain).name # "Stargate"

\* C37: with no matching bridge name the selected profile is the element at
\* index (character-code sum of "source-dest") modulo the length of the
\* filtered list, the list being the high-TVL or canonical profiles when
\* either endpoint of the route is Ethereum and the non-canonical profiles
\* for a rollup-to-rollup route; the filtered list is never empty.
C37_HashIndexIntoRouteClassList ==
    (orch.pc = "done" /\ orch.result.kind = "RouteCalculation"
        /\ ~SameChainByValue(req.current_chain, req.target_chain)
        /\ ProfilesNamed(orch.bridge_quote.bridge_name) = {})
    => \E base \in {req.current_chain = "Ethereum" \/ orch.target_enum = "Ethereum"} :
       \E options \in {IF base THEN L1Options ELSE L2Options} :
          /\ Len(options) > 0
          /\ orch.result.bridge_metadata
               = options[(SumCodes(Codes(req.current_chain) \o <<45>> \o Codes(req.target_chain))
                            % Len(options)) + 1]
          /\ base => \/ orch.result.bridge_metadata.tvl > 300
                     \/ orch.result.bridge_metadata.type = "Canonical"
          /\ ~base => orch.result.bridge_metadata.type # "Canonical"

\* C38: in a route calculation the exit leg's destination gas is 2.5 times
\* the source-chain gas estimate when the source is Ethereum and the
\* normalised destination is not, and the plain estimate on every other
\* route; every other component of both legs is the unmultiplied gas
\* estimate or quoted fee.
C38_SurchargeOnExitDestGasOnly ==
    (orch.pc = "done" /\ orch.result.kind = "RouteCalculation")
    => \E legs \in {orch.result.cost_breakdown} :
       \E source_gas \in {task.sg.result.total_cost_usd} :
       \E target_gas \in {task.dg.result.total_cost_usd} :
          /\ legs.entry.bridge_fee = orch.bridge_quote.total_fee_usd
          /\ legs.entry.source_gas = source_gas
          /\ legs.entry.dest_gas = target_gas
          /\ legs.exit.bridge_fee = IF Failed(task.xq.result)
                                    THEN orch.bridge_quote.total_fee_usd
                                    ELSE task.xq.result.total_fee_usd
          /\ legs.exit.source_gas = target_gas
          /\ legs.exit.dest_gas
               = IF req.current_chain = "Ethereum" /\ orch.target_enum # "Ethereum"
                 THEN (5 * source_gas) \div 2
                 ELSE source_gas

C38_Witness ==
    /\ orch.pc = "done"
    /\ orch.result.kind = "RouteCalculation"
    /\ req.current_chain = "Ethereum"
    /\ orch.target_enum = "Arbitrum"
    /\ orch.result.cost_breakdown.exit.dest_gas
         > 2 * orch.result.cost_breakdown.entry.source_gas
    /\ orch.result.cost_breakdown.exit.source_gas
         = orch.result.cost_breakdown.entry.dest_gas

\* The call returned a finite breakeven_days >= 0.
BreakevenExists ==
    /\ ev.pc = "done" /\ ev.out.raised = ""
    /\ ev.out.has_breakeven
    /\ ev.out.breakeven_days # Infinity
    /\ ev.out.breakeven_days.num >= 0

\* The chart starts at day 0, its days never decrease and it has at most
\* max_chart_points points.
ChartWellFormed ==
    /\ Len(ev.out.chart_data) \in 1..ev.in.max_chart_points
    /\ ev.out.chart_data[1].day = 0
    /\ \A i \in 1..(Len(ev.out.chart_data) - 1) :
          ev.out.chart_data[i].day <= ev.out.chart_data[i + 1].day

LastChartDay == ev.out.chart_data[Len(ev.out.chart_data)].day

\* C39 as stated: when a breakeven exists the chart starts at day 0, has
\* non-decreasing days and at most max_chart_points points, and its last
\* point lies at a day >= 1.5 times breakeven_days.
C39_ChartReachesBreakevenHorizon ==
    BreakevenExists
      => /\ ChartWellFormed
         /\ 2 * ev.out.breakeven_days.den * LastChartDay >= 3 * ev.out.breakeven_days.num

\* C39, amended: when a breakeven exists the chart starts at day 0, has
\* non-decreasing days and at most max_chart_points points; with two or more
\* points allowed its last point lies at the timeframe or at 1.5 times
\* breakeven_days cut down to whole days, whichever is later: at least
\* timeframe_days and more than 1.5 * breakeven_days - 1.
C39_ChartReachesWholeDays ==
    BreakevenExists
      => /\ ChartWellFormed
         /\ ev.in.max_chart_points >= 2
              => /\ LastChartDay >= ev.in.timeframe_days
                 /\ 2 * ev.out.breakeven_days.den * (LastChartDay + 1)
                       > 3 * ev.out.breakeven_days.num
                 /\ \/ LastChartDay = ev.in.timeframe_days
                    \/ 2 * ev.out.breakeven_days.den * LastChartDay
                          <= 3 * ev.out.breakeven_days.num

C39_Witness ==
    /\ BreakevenExists
    /\ ev.in.timeframe_days = 90 /\ ev.in.max_chart_points = 100
    /\ ev.in.total_cost = 50 /\ ev.in.capital = 1000 /\ ev.in.target_apy = 5
    /\ Len(ev.out.chart_data) = 100
    /\ LastChartDay = 547
    /\ 2 * ev.out.breakeven_days.den * LastChartDay < 3 * ev.out.breakeven_days.num

(***************************************************************************)
(* SpecEngine: core.risk.engine.RiskEngine.get_bridge_risk called again    *)
(* and again on one engine while its two enrichment sources answer, fail   *)
(* or answer in part, and their caches age.  TVL in millions of USD, ages  *)
(* in tenths of a year, the clock in minutes.                              *)
(***************************************************************************)
DefiLlamaCacheTtl == 5
EtherscanCacheTtl == 60
DefaultTvl == 50
DefaultAge == 10
MaxEngineCalls == 2
MaxEngineTicks == 2
ReportedVolume == 300
ReportedAge == 30

NoData == [found |-> FALSE]

\* FALLBACK_BRIDGE_DATA.get(bridge_name.lower(), {})
FallbackBridgeData(bridge_name) ==
    LET key == Lower(Codes(bridge_name))
        row(type, tvl, age) ==
            [known |-> TRUE, type |-> type, tvl |-> tvl, age |-> age, verified |-> TRUE]
    IN CASE key = Codes("stargate") -> row("LayerZero", 450, 25)
         [] key = Lower(Codes("Across")) -> row("Intent", 200, 20)
         [] key = Lower(Codes("Hop")) -> row("Liquidity", 65, 35)
         [] key = Lower(Codes("Synapse")) -> row("Liquidity", 110, 28)
         [] key = Lower(Codes("Native Bridge")) -> row("Canonical", 5000, 40)
         [] key = Lower(Codes("cBridge")) -> row("Liquidity", 150, 25)
         [] key = Lower(Codes("Multichain")) -> row("Liquidity", 0, 30)
         [] OTHER -> [known |-> FALSE]

\* RektDatabaseService for the nameable protocols: whether exploits are
\* recorded and the net loss.
RektRecord(bridge_name) ==
    LET key == Lower(Codes(bridge_name))
    IN CASE key = Lower(Codes("Multichain")) -> [has_exploits |-> TRUE, total_lost |-> 126]
         [] key = Lower(Codes("Synapse")) -> [has_exploits |-> TRUE, total_lost |-> 0]
         [] OTHER -> [has_exploits |-> FALSE, total_lost |-> 0]

\* What GET /bridges can do: fail at the HTTP level, answer with a body that
\* is not JSON, or answer with a list that does not hold the bridge or
\* holds it with a volume, with no "lastDailyVolume" key, with a null volume
\* or with a volume that is not a number.
DefiLlamaAnswers ==
    {[kind |-> k, bridges |-> <<>>] : k \in {"http_error", "not_json", "ok"}}
      \cup {[kind |-> "ok",
             bridges |-> <<[name |-> "stargate", displayName |-> "Stargate",
                            lastDailyVolume |-> v]>>] :
              v \in {"number", "missing", "null", "text"}}

\* Lines 108-123 of defillama.py: the BridgeTVLData parsed from the list,
\* or the exception that leaves the loop.  origin tells whether tvl_usd
\* was read from the body or is the default of bridge.get().
ParseBridges(bridges, t) ==
    IF \E i \in DOMAIN bridges : bridges[i].lastDailyVolume = "null"
    THEN [raised |-> "TypeError", bridges |-> <<>>]
    ELSE [raised |-> "",
          bridges |->
            [i \in DOMAIN SelectSeq(bridges, LAMBDA b : b.lastDailyVolume # "text") |->
               LET b == SelectSeq(bridges, LAMBDA x : x.lastDailyVolume # "text")[i]
               IN [found |-> TRUE, name |-> b.name, display_name |-> b.displayName,
                   tvl_usd |-> IF b.lastDailyVolume = "number" THEN ReportedVolume ELSE 0,
                   origin |-> IF b.lastDailyVolume = "number" THEN "response"
                              ELSE "key_default",
                   last_updated |-> t]]]

\* DefiLlamaService.get_all_bridges; all is _all_bridges_cache.
GetAllBridges(all, answer, t) ==
    IF all.set /\ t - all.at < DefiLlamaCacheTtl
    THEN [raised |-> "", bridges |-> all.bridges, all |-> all]
    ELSE IF answer.kind = "http_error"
    THEN [raised |-> "", bridges |-> IF all.set THEN all.bridges ELSE <<>>, all |-> all]
    ELSE IF answer.kind = "not_json"
    THEN [raised |-> "JSONDecodeError", bridges |-> <<>>, all |-> all]
    ELSE \* "ok"
      LET parsed == ParseBridges(answer.bridges, t)
      IN IF parsed.raised # ""
         THEN [raised |-> parsed.raised, bridges |-> <<>>, all |-> all]
         ELSE [raised |-> "", bridges |-> parsed.bridges,
               all |-> [set |-> TRUE, bridges |-> parsed.bridges, at |-> t]]

\* DefiLlamaService.get_bridge_tvl; d holds _cache (tvl) and
\* _all_bridges_cache (all).
GetBridgeTvl(d, bridge_name, answer, t) ==
    LET cache_key == Lower(Codes(bridge_name))
        hits == {e \in d.tvl : e.key = cache_key /\ t - e.at < DefiLlamaCacheTtl}
    IN IF hits # {}
       THEN [raised |-> "", data |-> (CHOOSE e \in hits : TRUE).data, d |-> d]
       ELSE LET got == GetAllBridges(d.all, answer, t)
                match == {i \in DOMAIN got.bridges :
                            \/ Lower(Codes(got.bridges[i].name)) = cache_key
                            \/ Lower(Codes(got.bridges[i].display_name)) = cache_key}
            IN IF got.raised # ""
               THEN [raised |-> got.raised, data |-> NoData, d |-> d]
               ELSE IF match = {}
               THEN [raised |-> "", data |-> NoData, d |-> [d EXCEPT !.all = got.all]]
               ELSE LET bridge == got.bridges[CHOOSE i \in match : \A j \in match : i <= j]
                    IN [raised |-> "", data |-> bridge,
                        d |-> [d EXCEPT !.all = got.all,
                                        !.tvl = {e \in @ : e.key # cache_key}
                                                  \cup {[key |-> cache_key, data |-> bridge,
                                                         at |-> t]}]]

\* RiskEngine._fetch_tvl: any exception becomes None.
FetchTvl(d, bridge_name, answer, t) ==
    LET got == GetBridgeTvl(d, bridge_name, answer, t)
    IN [data |-> IF got.raised # "" THEN NoData ELSE got.data, d |-> got.d]

\* The keys of EtherscanService.ENDPOINTS
EtherscanEndpoints ==
    {Codes(k) : k \in {"ethereum", "arbitrum", "base", "optimism", "polygon",
                       "avalanche", "bsc", "bnb chain"}}

\* What the explorer can do: the source-code request fails at the HTTP
\* level, answers with a body that is not JSON, reports verified source,
\* reports no source, or answers with status "0"; the creation lookup
\* yields the creation time, answers with status "0", or fails.
EtherscanAnswers ==
    [source : {"http_error", "not_json"}, creation : {"none"}]
      \cup [source : {"verified", "unverified", "notok"},
            creation : {"aged", "notok", "error"}]

\* No address, no request to answer.
NoExplorerRequest == [source |-> "none", creation |-> "none"]

\* EtherscanService.get_contract_info; the origins tell whether is_verified
\* and age_years were read from a response body or are still the values
\* they were initialised with.
GetContractInfo(contracts, address, chain, answer, t) ==
    LET cache_key == <<Lower(Codes(chain)), address>>
        hits == {e \in contracts : e.key = cache_key /\ t - e.at < EtherscanCacheTtl}
        verification ==
            [found |-> TRUE,
             is_verified |-> answer.source = "verified",
             age_years |-> IF answer.creation = "aged" THEN ReportedAge ELSE 0,
             verified_origin |-> IF answer.source \in {"verified", "unverified"}
                                 THEN "response" ELSE "initial",
             age_origin |-> IF answer.creation = "aged" THEN "response" ELSE "initial"]
    IN IF hits # {}
       THEN [raised |-> "", data |-> (CHOOSE e \in hits : TRUE).data, contracts |-> contracts]
       ELSE IF Lower(Codes(chain)) \notin EtherscanEndpoints
       THEN [raised |-> "", data |-> NoData, contracts |-> contracts]
       ELSE IF answer.source = "http_error"
       THEN [raised |-> "", data |-> NoData, contracts |-> contracts]
       ELSE IF answer.source = "not_json"
       THEN [raised |-> "JSONDecodeError", data |-> NoData, contracts |-> contracts]
       ELSE [raised |-> "", data |-> verification,
             contracts |-> {e \in contracts : e.key # cache_key}
                             \cup {[key |-> cache_key, data |-> verification, at |-> t]}]

\* RiskEngine._fetch_contract_info: no address, no request; any exception
\* becomes None.
FetchContractInfo(contracts, address, chain, answer, t) ==
    IF address = ""
    THEN [data |-> NoData, contracts |-> contracts]
    ELSE LET got == GetContractInfo(contracts, address, chain, answer, t)
         IN [data |-> IF got.raised # "" THEN NoData ELSE got.data,
             contracts |-> got.contracts]

\* RiskEngine.get_bridge_risk: the LiveBridgeMetadata returned and the
\* caches of the two services afterwards.
EngineGetBridgeRisk(s, bridge_name, source_chain, target_chain, contract_address, dl, es, t) ==
    LET tvl_data == FetchTvl(s, bridge_name, dl, t)
        contract_data == FetchContractInfo(s.contract, contract_address, source_chain, es, t)
        fallback == FallbackBridgeData(bridge_name)
        tvl_usd == IF tvl_data.data.found THEN tvl_data.data.tvl_usd
                   ELSE IF fallback.known THEN fallback.tvl ELSE DefaultTvl
        bridge_type == IF fallback.known THEN fallback.type ELSE "Liquidity"
        is_verified == IF contract_data.data.found THEN contract_data.data.is_verified
                       ELSE IF fallback.known THEN fallback.verified ELSE TRUE
        age_years == IF contract_data.data.found THEN contract_data.data.age_years
                     ELSE IF fallback.known THEN fallback.age ELSE DefaultAge
    IN [out |-> [raised |-> "", name |-> bridge_name, bridge_type |-> bridge_type,
                 tvl_usd |-> tvl_usd,
                 tvl_source |-> IF tvl_data.data.found THEN "live"
                                ELSE IF fallback.known THEN "fallback" ELSE "default",
                 contract_verified |-> is_verified,
                 contract_age_years |-> age_years,
                 verification_source |-> IF contract_data.data.found THEN "live"
                                         ELSE IF fallback.known THEN "fallback" ELSE "default",
                 has_exploits |-> RektRecord(bridge_name).has_exploits,
                 overall_score |->
                     CalculateRiskScore(
                         [bridge_type |-> bridge_type, tvl |-> tvl_usd, age10 |-> age_years,
                          has_exploits |-> RektRecord(bridge_name).has_exploits,
                          exploit_total_lost |-> RektRecord(bridge_name).total_lost,
                          is_contract_verified |-> is_verified,
                          source_chain |-> source_chain, target_chain |-> target_chain]),
                 tvl_data |-> tvl_data.data, contract_data |-> contract_data.data],
        s |-> [all |-> tvl_data.d.all, tvl |-> tvl_data.d.tvl,
               contract |-> contract_data.contracts]]

EngineBridges == {"Stargate", "Estimated Bridge"}
EngineChains == {"Ethereum", "Mars"}
EngineAddresses == {"", "0xdf0770df86a8034b3efef0a1bb3c889b8332ff56"}

EngineInit ==
    /\ now = StartTime
    /\ PriceIdle
    /\ cb = <<>> /\ net = <<>>
    /\ cache = [all |-> [set |-> FALSE, bridges |-> <<>>, at |-> 0], tvl |-> {},
                contract |-> {}]
    /\ ev = [n |-> 0, ticks |-> 0, out |-> None]

EngineCall(bridge_name, chain, address, dl, es) ==
    /\ ev.n < MaxEngineCalls
    /\ \E r \in {EngineGetBridgeRisk(cache, bridge_name, chain, "Arbitrum", address, dl, es, now)} :
          /\ cache' = r.s
          /\ ev' = [ev EXCEPT !.n = @ + 1, !.out = r.out]
    /\ UNCHANGED <<now, cb, net, brk, calls, streak, req, task, orch>>

\* Time passes: a few minutes or an hour.
EngineTick(minutes) ==
    /\ ev.ticks < MaxEngineTicks
    /\ now' = now + minutes
    /\ ev' = [ev EXCEPT !.ticks = @ + 1]
    /\ UNCHANGED <<cb, cache, net, brk, calls, streak, req, task, orch>>

EngineNext ==
    \/ \E bridge_name \in EngineBridges, chain \in EngineChains,
          address \in EngineAddresses, dl \in DefiLlamaAnswers :
          \E es \in IF address = "" THEN {NoExplorerRequest} ELSE EtherscanAnswers :
             EngineCall(bridge_name, chain, address, dl, es)
    \/ \E minutes \in {DefiLlamaCacheTtl, EtherscanCacheTtl} : EngineTick(minutes)

SpecEngine == EngineInit /\ [][EngineNext]_vars

EngineReturned == ev.n > 0 /\ ev.out.raised = ""

\* The value a missing enrichment degrades to, with its provenance.
Degraded(bridge_name, field, default) ==
    IF FallbackBridgeData(bridge_name).known
    THEN [value |-> FallbackBridgeData(bridge_name)[field], source |-> "fallback"]
    ELSE [value |-> default, source |-> "default"]

\* C40: get_bridge_risk of the risk engine never fails; a TVL, contract age
\* or verification flag that did not come from its source's response is the
\* fallback-table value of the bridge, or the conservative default when the
\* bridge has none, and is recorded with that provenance; "live" is
\* recorded only for a value read from the source's response.
C40_EnrichmentDegrades ==
    ev.n > 0
      => /\ ev.out.raised = ""
         /\ \E tvl_live \in {ev.out.tvl_data.found /\ ev.out.tvl_data.origin = "response"} :
               /\ ev.out.tvl_source = "live" => tvl_live
               /\ ~tvl_live
                    => \E d \in {Degraded(ev.out.name, "tvl", DefaultTvl)} :
                          ev.out.tvl_usd = d.value /\ ev.out.tvl_source = d.source
         /\ \E age_live \in {ev.out.contract_data.found
                               /\ ev.out.contract_data.age_origin = "response"} :
               /\ ev.out.verification_source = "live" => age_live
               /\ ~age_live
                    => \E d \in {Degraded(ev.out.name, "age", DefaultAge)} :
                          /\ ev.out.contract_age_years = d.value
                          /\ ev.out.verification_source = d.source
         /\ \E verified_live \in {ev.out.contract_data.found
                                    /\ ev.out.contract_data.verified_origin = "response"} :
               /\ ev.out.verification_source = "live" => verified_live
               /\ ~verified_live
                    => ev.out.contract_verified = TRUE

====
